---- MODULE Spec2Model ----
(***************************************************************************)
(* Model of the MoltBot gateway client (src/moltbot_client.py) and of the  *)
(* task orchestrators built on it (src/moltbot_scraper.py,                 *)
(* src/events_scraper.py).                                                 *)
(*                                                                         *)
(* Spec      : one MoltBotClient, several tasks calling request() on it,   *)
(*             the gateway answering in any order, the receive loop.       *)
(* SpecInv   : the same client with one task calling invoke_agent() on it, *)
(*             the gateway emitting "chat" and "agent" events, sending     *)
(*             other frames, closing, and disconnect() at any time.        *)
(* SpecDispatch : several tasks calling invoke_agent() on one client at    *)
(*             the same time, the events of their runs interleaved.        *)
(* SpecSite  : one call of analyze_site() or scrape_venue(), the agent's   *)
(*             answers drawn from every shape invoke_agent() can produce.  *)
(* SpecBatch : one call of analyze_sites() or scrape_venues(): the         *)
(*             semaphore, the tasks and the gather.                        *)
(* SpecMerge : _merge_analyses() applied to every pair of analyses of a    *)
(*             bounded set.                                                *)
(*                                                                         *)
(* asyncio runs one task at a time and switches only where a task awaits,  *)
(* so each action is the code between two suspension points.               *)
(***************************************************************************)
EXTENDS Integers, Sequences, FiniteSets, TLC

\* ------------------------------------------------------------------ bounds
NProcs == 2        \* calls of request() on the client, each in a task of its own
MaxInbox == 1      \* frames queued on the transport, not yet received
NInvs == 2         \* calls of invoke_agent() on the client, each in a task of its own
NSubscribers == 4  \* calls of invoke_agent() that subscribe and unsubscribe side by side
MaxFragments == 1  \* streamed text fragments the gateway emits per run
NTargets == 3      \* targets handed to analyze_sites() / scrape_venues()
Concurrency == 2   \* the concurrency argument of analyze_sites() / scrape_venues()

Procs == 1..NProcs
Invs == 1..NInvs
Subscribers == 1..NSubscribers
Targets == 1..NTargets
\* identifiers the client can allocate: one for connect(), one per request(),
\* two per invoke_agent() (chat.send and chat.history)
Ids == 1..(1 + NProcs + 2 * NInvs)
\* event frames of no run of this client that the gateway sends
MaxStrays == 1

VARIABLES
    connected,        \* MoltBotClient.connected
    ws,               \* MoltBotClient.ws: "none", "open", "closed"
    receive_task,     \* MoltBotClient._receive_task: "none", "running", "returned", "cancelled", or the exception that ended it
    connect_called,   \* connect() has been called on this client
    request_id,       \* MoltBotClient._request_id
    pending_requests, \* keys of MoltBotClient._pending_requests (the number n stands for the key str(n))
    fut,              \* the future created by request() number n: [st, val]
    inbox,            \* frames the gateway has sent and the receive loop has not yet read
    gw_unanswered,    \* gateway: requests received and not answered
    gw_runs,          \* gateway: per chat.send request, the run it started and the events emitted for it
    disc,             \* the running disconnect() call: "idle", "closing"
    disc_raised,      \* the exception a disconnect() call raised, or "none"
    disc_snapshot,    \* the invoke_agent() calls that were suspended on an unresolved future when disconnect() was first called
    pc,               \* per request task: where it is inside request()
    rid,              \* per request task: the identifier its request() allocated
    out,              \* per request task: how its request() ended: [kind, val]
    event_handlers,   \* MoltBotClient._event_handlers: per event name, the handlers in subscription order
    ipc,              \* per invocation: where it is inside invoke_agent()
    send_id,          \* per invocation: the identifier of its chat.send request (0: none yet)
    hist_id,          \* per invocation: the identifier of its chat.history request (0: none yet)
    run_id,           \* per invocation: the local run_id of invoke_agent
    response_future,  \* per invocation: the local response_future: [st, val]
    streamed,         \* per invocation: the local streamed_text_parts
    iout,             \* per invocation: how invoke_agent() ended: [kind, val]
    mode,             \* the orchestrator in use: "sites" (MoltBotScraper), "venues" (EventsScraper), "none" before the call
    urls,             \* per target: the url argument, by the one property the code depends on
    batch,            \* the orchestrator call: "idle", "single", "running", "returned", "raised"
    batch_out,        \* what analyze_sites() / scrape_venues() returned
    sem_value,        \* asyncio.Semaphore: the internal counter
    sem_waiters,      \* asyncio.Semaphore: the tasks queued in acquire(), oldest first
    tpc,              \* per target: where its task is
    calls,            \* per target: invoke_agent() calls made so far
    first,            \* per target: the parsed result of the first attempt
    result,           \* per target: what analyze_site() / scrape_venue() returned
    session,          \* per target: the session_key of its first and of its second invoke_agent() call
    finished,         \* the targets whose task has ended, in the order they ended
    gw_handshake,     \* gateway: how it treats the handshake: [transport, first, reply]
    conn_out,         \* how connect() ended: [kind, id, cause]
    dispatched,       \* the receive loop's last event frame: the handlers it awaited, in order, and whether one raised
    gw_strays,        \* gateway: event frames sent that belong to no run of this client
    iterating,        \* the receive loop's for loop over a handler list, when its handlers suspend
    merge_in,         \* _merge_analyses: its two arguments, [first, retry]
    merge_out,        \* _merge_analyses: what it returned
    filter_in,        \* _filter_urls: its arguments, [urls, site_domain]
    filter_out,       \* _filter_urls: whether it has returned, and what
    extract_in,       \* _extract_json_object: its argument, with the shape it was made in
    extract_out,      \* _extract_json_object: whether it has returned, and what
    parse_in,         \* _parse_agent_response: the JSON object of the agent's answer
    parse_out         \* _parse_agent_response: whether it has returned, and what

conn_vars == <<connected, ws, receive_task, connect_called>>
req_vars == <<request_id, pending_requests, fut>>
gw_vars == <<inbox, gw_unanswered, gw_runs>>
disc_vars == <<disc, disc_raised, disc_snapshot>>
proc_vars == <<pc, rid, out>>
inv_vars == <<event_handlers, ipc, send_id, hist_id, run_id, response_future, streamed, iout>>
orch_vars == <<mode, urls, batch, batch_out, sem_value, sem_waiters, tpc, calls, first, result, session, finished>>
event_vars == <<dispatched, gw_strays, iterating>>
filter_vars == <<filter_in, filter_out>>
extract_vars == <<extract_in, extract_out>>
parse_vars == <<parse_in, parse_out>>
pure_vars == <<merge_in, merge_out, filter_vars, extract_vars, parse_vars>>
hs_vars == <<gw_handshake, conn_out>>
vars == <<conn_vars, req_vars, gw_vars, disc_vars, proc_vars, inv_vars, orch_vars, hs_vars, event_vars, pure_vars>>

\* ------------------------------------------------------------ wire format
\* str(n): the identifier as request() puts it on the wire and in the table
StrKey(n) == <<"str", n>>

\* no value
NoVal == <<"none", 0>>

\* what the gateway answers to request n: a payload (or an error) of its own
AnswerTo(n) == <<"answer", n>>

\* the run identifier the gateway returns in its reply to chat.send request n
RunOf(n) == <<"run", n>>

ResFrame(id, ok, val) == [type |-> "res", id |-> id, ok |-> ok, val |-> val]
EventFrame(name, run, kind, data) ==
    [type |-> "event", event |-> name, runId |-> run, kind |-> kind, data |-> data]
JunkFrame(kind) == [type |-> kind, id |-> <<"none", 0>>, ok |-> FALSE, val |-> NoVal]

\* frame kinds other than "res"/"event" that the gateway can put on the wire
JunkKinds == {"other", "undecodable", "nonobject"}
CloseKinds == {"close_ok", "close_error"}

\* the transcripts a chat.history reply can hold (lines 302-314), by name,
\* and the turns of each, oldest first.  An assistant turn has usable text,
\* blank text, or signals an upstream error (stopReason "error" or an
\* errorMessage).
HistoryKinds == {"text", "llm_error", "empty", "blank", "error_then_text",
                 "text_then_error", "error_then_blank", "text_then_blank"}

Turns(history) ==
    CASE history = "text" -> <<"user", "assistant_text">>
      [] history = "llm_error" -> <<"user", "assistant_error">>
      [] history = "blank" -> <<"user", "assistant_blank">>
      [] history = "error_then_text" -> <<"assistant_error", "user", "assistant_text">>
      [] history = "text_then_error" -> <<"assistant_text", "user", "assistant_error">>
      [] history = "error_then_blank" -> <<"assistant_error", "user", "assistant_blank">>
      [] history = "text_then_blank" -> <<"assistant_text", "user", "assistant_blank">>
      [] OTHER -> <<>>

UnsetFuture == [st |-> "unset", val |-> NoVal]
PendingFuture == [st |-> "pending", val |-> NoVal]
NoOutcome == [kind |-> "none", val |-> NoVal]
Outcome(kind, val) == [kind |-> kind, val |-> val]

\* ------------------------------------------------------ handshake inputs
\* a JSON value of a reply field, by its truth value in Python
JsonFlags == {"absent", "false", "zero", "true", "text"}
TruthyJson(v) == v \in {"true", "text"}

\* a handshake reply: decodable or not, a JSON object or not, and the four
\* fields connect() looks at (lines 98-111); type "other" is any type, or
\* none, outside the three that connect() names
Reply(json, type, ok, success, error) ==
    [json |-> json, type |-> type, ok |-> ok, success |-> success, error |-> error]

HandshakeReplies ==
    {Reply("object", t, o, s, e) : t \in {"res", "connected", "welcome", "other"},
                                   o \in JsonFlags, s \in JsonFlags,
                                   e \in {"absent", "bad token"}}
      \cup {Reply("undecodable", "other", "absent", "absent", "absent"),
            Reply("nonobject", "other", "absent", "absent", "absent")}

\* the first frame the gateway sends (lines 55-62): a connect.challenge
\* event, one whose payload is null, another object, or no JSON object
FirstFrames == {"challenge", "challenge_null_payload", "other", "undecodable", "nonobject"}

\* the transport: refused, closed before the first / the second frame, open
Transports == {"refused", "closed_before_first", "closed_before_reply", "open"}

Handshake(transport, first_frame, reply) ==
    [transport |-> transport, first |-> first_frame, reply |-> reply]

Handshakes ==
    {Handshake(t, f, r) : t \in Transports, f \in FirstFrames, r \in HandshakeReplies}

\* the gateways the other specifications run against: one that acknowledges,
\* one that rejects the token, one that is not there
BasicHandshakes ==
    {Handshake("open", "challenge", Reply("object", "res", "true", "absent", "absent")),
     Handshake("open", "challenge", Reply("object", "res", "false", "absent", "bad token")),
     Handshake("refused", "challenge", Reply("object", "res", "true", "absent", "absent"))}

NoConnOut == [kind |-> "none", id |-> 0, cause |-> NoVal]

HandshakeInit(handshakes) ==
    /\ gw_handshake \in handshakes
    /\ conn_out = NoConnOut

\* ------------------------------------------------------------------- Init
ClientInit ==
    /\ connected = FALSE
    /\ ws = "none"
    /\ receive_task = "none"
    /\ connect_called = FALSE
    /\ request_id = 0
    /\ pending_requests = {}
    /\ fut = [n \in Ids |-> UnsetFuture]
    /\ inbox = <<>>
    /\ gw_unanswered = {}
    /\ gw_runs = [n \in Ids |-> [started |-> FALSE, frags |-> 0, final |-> FALSE]]
    /\ disc = "idle"
    /\ disc_raised = "none"
    /\ disc_snapshot = [taken |-> FALSE, invs |-> {}]

ProcInit ==
    /\ pc = [p \in Procs |-> "idle"]
    /\ rid = [p \in Procs |-> 0]
    /\ out = [p \in Procs |-> NoOutcome]

\* no event is being dispatched
NotIterating ==
    [on |-> FALSE, name |-> "none", list |-> <<>>, pos |-> 0, shared |-> FALSE,
     began |-> <<>>, removed |-> {}, log |-> <<>>]

\* invoke_agent's locals before the call (lines 262-264) and the empty
\* handler table (line 35)
InvInitFor(calls_made) ==
    /\ event_handlers = [chat |-> <<>>, agent |-> <<>>]
    /\ ipc = [i \in calls_made |-> "idle"]
    /\ send_id = [i \in calls_made |-> 0]
    /\ hist_id = [i \in calls_made |-> 0]
    /\ run_id = [i \in calls_made |-> NoVal]
    /\ response_future = [i \in calls_made |-> PendingFuture]
    /\ streamed = [i \in calls_made |-> <<>>]
    /\ iout = [i \in calls_made |-> NoOutcome]
    /\ dispatched = [raised |-> FALSE, log |-> <<>>]
    /\ gw_strays = 0
    /\ iterating = NotIterating

InvInit == InvInitFor(Invs)

\* a SiteAnalysis / VenueResult, by the fields the orchestrators look at
Record(t, listing, product, issues, events, err) ==
    [url |-> t, listing_urls |-> listing, product_urls |-> product,
     security_issues |-> issues, events |-> events, error_message |-> err]

NoRecord == Record(0, {}, {}, {}, 0, "None")

OrchInit ==
    /\ mode = "none"
    /\ urls = [t \in Targets |-> "unset"]
    /\ batch = "idle"
    /\ batch_out = <<>>
    /\ sem_value = 0
    /\ sem_waiters = <<>>
    /\ tpc = [t \in Targets |-> "unstarted"]
    /\ calls = [t \in Targets |-> 0]
    /\ first = [t \in Targets |-> NoRecord]
    /\ result = [t \in Targets |-> NoRecord]
    /\ session = [t \in Targets |-> [first |-> NoVal, retry |-> NoVal]]
    /\ finished = <<>>

\* no call of a pure function under way
NotCalled == [called |-> FALSE, urls |-> <<>>]

FilterIdle ==
    /\ filter_in = [urls |-> <<>>, site_domain |-> <<>>]
    /\ filter_out = NotCalled

ExtractIdle ==
    /\ extract_in = [text |-> <<>>, shape |-> "any", object |-> <<>>]
    /\ extract_out = [called |-> FALSE, returned |-> [found |-> FALSE, value |-> <<>>]]

\* a JSON value of the agent's answer: its type and, for a string, its text
Json(t, v) == [t |-> t, v |-> v]
Absent == Json("absent", "")

\* the SiteAnalysis fields _parse_agent_response maps from the JSON object
Mapped(failed, pagination, issues, listing, ecommerce) ==
    [failed |-> failed, pagination_type |-> pagination, security_issues |-> issues,
     listing_urls |-> listing, is_ecommerce |-> ecommerce]

ParseIdle ==
    /\ parse_in = [pagination_type |-> Absent, security_issues |-> [t |-> "absent", items |-> <<>>],
                   listing_urls |-> {}, is_ecommerce |-> FALSE]
    /\ parse_out = [called |-> FALSE, returned |-> Mapped(FALSE, "unknown", <<>>, {}, FALSE)]

PureInit ==
    /\ merge_in = [first |-> NoRecord, retry |-> NoRecord]
    /\ merge_out = NoRecord
    /\ FilterIdle
    /\ ExtractIdle
    /\ ParseIdle

Init == ClientInit /\ HandshakeInit(BasicHandshakes) /\ ProcInit /\ InvInit /\ OrchInit /\ PureInit


\* ---------------------------------------------------------------- request
\* (mutation of NextId: the counter is not advanced once it has started)
NextIdStuck == IF request_id = 0 THEN 1 ELSE request_id

\* _next_id() (lines 137-139)
NextId == request_id + 1

\* ---------------------------------------------------------------- connect
\* (mutation of AckShape: only the first branch of the chain)
AckShapeResOnly(reply) == reply.type = "res" /\ TruthyJson(reply.ok)

\* the if-chain of lines 98-109 on a decoded reply
AckShape(reply) ==
    IF reply.type = "res" /\ TruthyJson(reply.ok) THEN TRUE
    ELSE IF reply.type = "connected" \/ reply.type = "welcome" THEN TRUE
    ELSE IF TruthyJson(reply.ok) \/ TruthyJson(reply.success) THEN TRUE
    ELSE FALSE

\* (mutation of Rejected: the text says nothing of the reply)
RejectedBlind(reply) == <<"ConnectionError: MoltBot connection failed", "">>

\* the exception the else branch raises (lines 110-112): its text holds the
\* reply's "error" field, or the whole reply when it has none
Rejected(reply) ==
    IF reply.error # "absent"
      THEN <<"ConnectionError: MoltBot connection failed: error", reply.error>>
      ELSE <<"ConnectionError: MoltBot connection failed: data", reply>>

\* what goes wrong, if anything, up to the moment the connect envelope is
\* built (lines 47-62)
FirstFailure(h) ==
    CASE h.transport = "refused" -> <<"OSError", NoVal>>
      [] h.transport = "closed_before_first" -> <<"ConnectionClosed", NoVal>>
      [] h.first = "undecodable" -> <<"JSONDecodeError", NoVal>>
      [] h.first \in {"nonobject", "challenge_null_payload"} -> <<"AttributeError", NoVal>>
      [] OTHER -> NoVal

\* what goes wrong, if anything, from the reply on (lines 94-112)
ReplyFailure(h) ==
    CASE h.transport = "closed_before_reply" -> <<"ConnectionClosed", NoVal>>
      [] h.reply.json = "undecodable" -> <<"JSONDecodeError", NoVal>>
      [] h.reply.json = "nonobject" -> <<"AttributeError", NoVal>>
      [] ~AckShape(h.reply) -> Rejected(h.reply)
      [] OTHER -> NoVal

\* the except clause of lines 114-116
Failed(id, cause) == [kind |-> "ConnectionError", id |-> id, cause |-> cause]

\* connect(): the transport is opened, the first frame read, the connect
\* envelope sent under a fresh identifier (line 70) and the reply judged.
Connect ==
    /\ ~connect_called
    /\ connect_called' = TRUE
    /\ LET h == gw_handshake
       IN IF FirstFailure(h) # NoVal
            THEN /\ connected' = FALSE
                 /\ ws' = IF h.transport = "refused" THEN ws ELSE "open"
                 /\ conn_out' = Failed(0, FirstFailure(h))
                 /\ UNCHANGED <<request_id, receive_task>>
            ELSE /\ ws' = "open"
                 /\ request_id' = NextId
                 /\ IF ReplyFailure(h) # NoVal
                      THEN /\ connected' = FALSE
                           /\ conn_out' = Failed(NextId, ReplyFailure(h))
                           /\ UNCHANGED receive_task
                      ELSE /\ connected' = TRUE
                           /\ receive_task' = "running"
                           /\ conn_out' = [kind |-> "True", id |-> NextId, cause |-> NoVal]
    /\ UNCHANGED <<pending_requests, fut, gw_vars, gw_handshake, disc_vars, proc_vars,
                   inv_vars, orch_vars, event_vars, pure_vars>>

\* the table after request() registers its future (line 188)
Register(table, n) == table \cup {n}

\* request(), lines 179-190: allocate the identifier, register the future,
\* send the envelope (which reaches the gateway if the transport is open).
SendEnvelope ==
    /\ request_id' = NextId
    /\ fut' = [fut EXCEPT ![NextId] = PendingFuture]
    /\ pending_requests' = Register(pending_requests, NextId)
    /\ gw_unanswered' = IF ws = "open" THEN gw_unanswered \cup {NextId} ELSE gw_unanswered

\* (mutation of Deregister: the entry is left in the table)
DeregisterNothing(table, n) == table

\* the table after the timeout handler's pop(req_id, None) (line 195)
Deregister(table, n) == table \ {n}

\* (mutation of RequestNotConnected: the guard is tested after the
\* identifier is allocated and the future registered)
RequestNotConnectedLate(p) ==
    /\ pc[p] = "idle"
    /\ ~connected
    /\ SendEnvelope
    /\ rid' = [rid EXCEPT ![p] = NextId]
    /\ out' = [out EXCEPT ![p] = Outcome("ConnectionError", NoVal)]
    /\ pc' = [pc EXCEPT ![p] = "done"]
    /\ UNCHANGED <<conn_vars, inbox, gw_runs, disc_vars, inv_vars, orch_vars, hs_vars, event_vars, pure_vars>>

\* request(), lines 176-177: not connected
RequestNotConnected(p) ==
    /\ pc[p] = "idle"
    /\ ~connected
    /\ out' = [out EXCEPT ![p] = Outcome("ConnectionError", NoVal)]
    /\ pc' = [pc EXCEPT ![p] = "done"]
    /\ UNCHANGED <<conn_vars, req_vars, gw_vars, disc_vars, rid, inv_vars, orch_vars, hs_vars, event_vars, pure_vars>>

\* request(), lines 179-193, up to the point where the task suspends in
\* wait_for.  ws.send on a closed transport raises and the call ends there
\* (line 190 is outside the try).
RequestSend(p) ==
    /\ pc[p] = "idle"
    /\ connected
    /\ SendEnvelope
    /\ rid' = [rid EXCEPT ![p] = NextId]
    /\ IF ws = "open"
         THEN /\ pc' = [pc EXCEPT ![p] = "await"]
              /\ out' = [out EXCEPT ![p] = NoOutcome]
         ELSE /\ pc' = [pc EXCEPT ![p] = "done"]
              /\ out' = [out EXCEPT ![p] = Outcome("ConnectionClosed", NoVal)]
    /\ UNCHANGED <<conn_vars, inbox, gw_runs, disc_vars, inv_vars, orch_vars, hs_vars, event_vars, pure_vars>>

\* wait_for returns the future's result (line 193)
RequestReturn(p) ==
    /\ pc[p] = "await"
    /\ fut[rid[p]].st = "result"
    /\ out' = [out EXCEPT ![p] = Outcome("result", fut[rid[p]].val)]
    /\ pc' = [pc EXCEPT ![p] = "done"]
    /\ UNCHANGED <<conn_vars, req_vars, gw_vars, disc_vars, rid, inv_vars, orch_vars, hs_vars, event_vars, pure_vars>>

\* wait_for re-raises the exception set on the future (line 193)
RequestRaise(p) ==
    /\ pc[p] = "await"
    /\ fut[rid[p]].st = "exception"
    /\ out' = [out EXCEPT ![p] = Outcome("Exception", fut[rid[p]].val)]
    /\ pc' = [pc EXCEPT ![p] = "done"]
    /\ UNCHANGED <<conn_vars, req_vars, gw_vars, disc_vars, rid, inv_vars, orch_vars, hs_vars, event_vars, pure_vars>>

\* The timeout of wait_for expires (line 193): the future is cancelled; the
\* calling task runs again only in a later turn of the event loop.
TimeoutFire(p) ==
    /\ pc[p] = "await"
    /\ fut[rid[p]].st = "pending"
    /\ fut' = [fut EXCEPT ![rid[p]] = [st |-> "cancelled", val |-> NoVal]]
    /\ pc' = [pc EXCEPT ![p] = "timed_out"]
    /\ UNCHANGED <<conn_vars, request_id, pending_requests, gw_vars, disc_vars, rid, out,
                   inv_vars, orch_vars, hs_vars, event_vars, pure_vars>>

\* The calling task resumes with the timeout (lines 194-196).
TimeoutResume(p) ==
    /\ pc[p] = "timed_out"
    /\ pending_requests' = Deregister(pending_requests, rid[p])
    /\ out' = [out EXCEPT ![p] = Outcome("TimeoutError", NoVal)]
    /\ pc' = [pc EXCEPT ![p] = "done"]
    /\ UNCHANGED <<conn_vars, request_id, fut, gw_vars, disc_vars, rid, inv_vars, orch_vars, hs_vars, event_vars, pure_vars>>

\* ---------------------------------------------------------------- gateway
\* the requests that are an invocation's chat.send / chat.history
IsSend(n) == \E i \in Invs : send_id[i] = n
IsHistory(n) == \E i \in Invs : hist_id[i] = n

\* what a positive reply to request n can carry
Bodies(n) == IF IsHistory(n) THEN HistoryKinds ELSE {"answer"}

\* the same, with two transcripts only
PlainBodies(n) == IF IsHistory(n) THEN {"text", "empty"} ELSE {"answer"}

\* The gateway answers a request it has received, echoing the identifier it
\* got; replies may come in any order.  A positive reply to chat.send starts
\* the run whose identifier the reply carries.
GatewayReply(n, ok, body) ==
    /\ ws = "open"
    /\ n \in gw_unanswered
    /\ Len(inbox) < MaxInbox
    /\ inbox' = Append(inbox, ResFrame(StrKey(n), ok, <<body, n>>))
    /\ gw_unanswered' = gw_unanswered \ {n}
    /\ gw_runs' = IF ok /\ IsSend(n) THEN [gw_runs EXCEPT ![n].started = TRUE] ELSE gw_runs
    /\ UNCHANGED <<conn_vars, req_vars, disc_vars, proc_vars, inv_vars, orch_vars, hs_vars, event_vars, pure_vars>>

\* the text of a streamed fragment, a sequence of characters: the k-th
\* fragment of run n, or the empty string (a payload whose "data" is "" or
\* that has no "data" at all, line 277)
FragmentText(n, k, empty) == IF empty THEN <<>> ELSE <<n, k>>

\* The gateway streams a text fragment of a run ("agent" event).
GatewayFragment(n, empty) ==
    /\ ws = "open"
    /\ Len(inbox) < MaxInbox
    /\ gw_runs[n].started /\ ~gw_runs[n].final
    /\ gw_runs[n].frags < MaxFragments
    /\ inbox' = Append(inbox, EventFrame("agent", RunOf(n), "text",
                                         FragmentText(n, gw_runs[n].frags + 1, empty)))
    /\ gw_runs' = [gw_runs EXCEPT ![n].frags = @ + 1]
    /\ UNCHANGED <<conn_vars, req_vars, gw_unanswered, disc_vars, proc_vars, inv_vars, orch_vars, hs_vars, event_vars, pure_vars>>

\* The gateway announces the end of a run ("chat" event, state "final"),
\* with or without the answer inline.
GatewayFinal(n, inline) ==
    /\ ws = "open"
    /\ Len(inbox) < MaxInbox
    /\ gw_runs[n].started /\ ~gw_runs[n].final
    /\ inbox' = Append(inbox, EventFrame("chat", RunOf(n), "final",
                                         IF inline THEN <<"inline", n>> ELSE NoVal))
    /\ gw_runs' = [gw_runs EXCEPT ![n].final = TRUE]
    /\ UNCHANGED <<conn_vars, req_vars, gw_unanswered, disc_vars, proc_vars, inv_vars, orch_vars, hs_vars, event_vars, pure_vars>>

\* event frames that belong to no run of this client: a "chat" state "final"
\* or an "agent" text fragment whose payload carries no runId, or an event
\* with no payload at all
Strays == {<<"chat", "final">>, <<"agent", "text">>, <<"chat", "no_payload">>}

\* The gateway pushes an event frame that belongs to no run of this client.
GatewayStray(name, kind) ==
    /\ ws = "open"
    /\ Len(inbox) < MaxInbox
    /\ gw_strays < MaxStrays
    /\ inbox' = Append(inbox, EventFrame(name, NoVal, kind, NoVal))
    /\ gw_strays' = gw_strays + 1
    /\ UNCHANGED <<conn_vars, req_vars, gw_unanswered, gw_runs, disc_vars, proc_vars,
                   inv_vars, orch_vars, hs_vars, dispatched, iterating, pure_vars>>

\* The gateway sends a frame that is neither a response nor an event.
GatewayJunk(kind) ==
    /\ ws = "open"
    /\ Len(inbox) < MaxInbox
    /\ inbox' = Append(inbox, JunkFrame(kind))
    /\ UNCHANGED <<conn_vars, req_vars, gw_unanswered, gw_runs, disc_vars, proc_vars,
                   inv_vars, orch_vars, hs_vars, event_vars, pure_vars>>

\* The transport closes from the remote side: normally (close_ok) or not.
\* Frames already queued are still delivered before the closure is seen.
TransportClose(kind) ==
    /\ ws = "open"
    /\ ws' = "closed"
    /\ inbox' = Append(inbox, JunkFrame(kind))
    /\ gw_unanswered' = {}
    /\ UNCHANGED <<connected, receive_task, connect_called, req_vars, gw_runs, disc_vars,
                   proc_vars, inv_vars, orch_vars, hs_vars, event_vars, pure_vars>>

\* ----------------------------------------------------------- receive loop
\* (mutation of Lookup: the oldest entry of the table, whatever the frame's id)
LookupOldest(table, id) == {n \in table : \A m \in table : n <= m}

\* `req_id in self._pending_requests` (line 151): the entries of the table
\* whose key equals the identifier the frame carries.  Keys are strings.
Lookup(table, id) == {n \in table : StrKey(n) = id}

\* lines 153-156: the future after set_result / set_exception
Resolved(frame) ==
    IF frame.ok THEN [st |-> "result", val |-> frame.val]
                ELSE [st |-> "exception", val |-> frame.val]

\* One turn of the receive loop on a "res" frame (lines 148-156).  set_result
\* and set_exception raise InvalidStateError on a future that is no longer
\* pending; nothing in the loop catches it, so the task ends with it.
ReceiveRes ==
    /\ receive_task = "running"
    /\ inbox # <<>>
    /\ Head(inbox).type = "res"
    /\ inbox' = Tail(inbox)
    /\ LET frame == Head(inbox)
           hit == Lookup(pending_requests, frame.id)
       IN IF hit = {}
            THEN UNCHANGED <<pending_requests, fut, receive_task>>
            ELSE LET n == CHOOSE m \in hit : TRUE
                 IN /\ pending_requests' = pending_requests \ {n}
                    /\ IF fut[n].st = "pending"
                         THEN /\ fut' = [fut EXCEPT ![n] = Resolved(frame)]
                              /\ UNCHANGED receive_task
                         ELSE /\ receive_task' = "InvalidStateError"
                              /\ UNCHANGED fut
    /\ UNCHANGED <<connected, ws, connect_called, request_id, gw_unanswered, gw_runs,
                   disc_vars, proc_vars, inv_vars, orch_vars, hs_vars, event_vars, pure_vars>>

Range(s) == {s[k] : k \in 1..Len(s)}

\* a handler raises on a frame without payload: payload is None and
\* payload.get is an AttributeError (lines 269, 276)
HandlerRaises(frame) == frame.kind = "no_payload"

\* chat_handler of invocation i (lines 266-271): the response future after
\* the handler has seen the frame's payload
ChatHandler(i, frame, rf) ==
    IF frame.runId = run_id[i] /\ frame.kind = "final" /\ rf.st = "pending"
      THEN [st |-> "result", val |-> frame.data]
      ELSE rf

\* agent_handler of invocation i (lines 273-281): streamed_text_parts after
\* the handler has seen the frame's payload
AgentHandler(i, frame, parts) ==
    IF frame.runId = run_id[i] /\ frame.kind = "text"
      THEN Append(parts, frame.data)
      ELSE parts

\* what one handler of invocation i leaves behind: the locals it closes over
HandlerEffect(i, frame, st) ==
    IF frame.event = "chat"
      THEN [st EXCEPT !.rf[i] = ChatHandler(i, frame, @)]
      ELSE [st EXCEPT !.parts[i] = AgentHandler(i, frame, @)]

\* the state the dispatch works on: the invocations' locals, the handlers
\* awaited so far, whether one raised, and whether the loop is still alive
DispatchStart ==
    [rf |-> response_future, parts |-> streamed, log |-> <<>>, raised |-> FALSE, alive |-> TRUE]

\* a dispatch that lets a handler's exception out of the loop
RECURSIVE DispatchUnguarded(_, _, _)
DispatchUnguarded(handlers, frame, st) ==
    IF handlers = <<>>
      THEN st
      ELSE LET i == Head(handlers)
               invoked == [st EXCEPT !.log = Append(@, i)]
           IN IF HandlerRaises(frame)
                THEN [invoked EXCEPT !.raised = TRUE, !.alive = FALSE]
                ELSE DispatchUnguarded(Tail(handlers), frame, HandlerEffect(i, frame, invoked))

\* the for loop over the handlers of one event name (lines 163-167): each
\* handler is awaited once, in list order, and its exception is swallowed
RECURSIVE Dispatch(_, _, _)
Dispatch(handlers, frame, st) ==
    IF handlers = <<>>
      THEN st
      ELSE LET i == Head(handlers)
               invoked == [st EXCEPT !.log = Append(@, i)]
           IN IF HandlerRaises(frame)
                THEN Dispatch(Tail(handlers), frame, [invoked EXCEPT !.raised = TRUE])
                ELSE Dispatch(Tail(handlers), frame, HandlerEffect(i, frame, invoked))

\* One turn of the receive loop on an "event" frame (lines 158-167): every
\* handler subscribed to the event name is awaited in turn.  The handlers
\* never suspend, so the whole dispatch is one step.
ReceiveEvent ==
    /\ receive_task = "running"
    /\ inbox # <<>>
    /\ Head(inbox).type = "event"
    /\ inbox' = Tail(inbox)
    /\ LET frame == Head(inbox)
           st == Dispatch(event_handlers[frame.event], frame, DispatchStart)
       IN /\ response_future' = st.rf
          /\ streamed' = st.parts
          /\ dispatched' = [raised |-> st.raised, log |-> st.log]
          /\ receive_task' = IF st.alive THEN receive_task ELSE "AttributeError"
    /\ UNCHANGED <<connected, ws, connect_called, req_vars, gw_unanswered, gw_runs,
                   gw_strays, iterating, disc_vars, proc_vars, event_handlers, ipc, send_id,
                   hist_id, run_id, iout, orch_vars, hs_vars, pure_vars>>

\* how the receive task ends, if it does, on a frame that is neither "res"
\* nor "event": json.loads raises on undecodable text (line 145), data.get
\* raises on a message that is not an object (line 146), the iteration ends
\* on closure (lines 144, 169-170); anything else is skipped.
TaskAfter(kind) ==
    CASE kind = "undecodable" -> "JSONDecodeError"
      [] kind = "nonobject" -> "AttributeError"
      [] kind \in CloseKinds -> "returned"
      [] OTHER -> "running"

ReceiveOther ==
    /\ receive_task = "running"
    /\ inbox # <<>>
    /\ Head(inbox).type \in JunkKinds \cup CloseKinds
    /\ inbox' = Tail(inbox)
    /\ receive_task' = TaskAfter(Head(inbox).type)
    /\ connected' = IF Head(inbox).type = "close_error" THEN FALSE ELSE connected
    /\ UNCHANGED <<ws, connect_called, req_vars, gw_unanswered, gw_runs, disc_vars,
                   proc_vars, inv_vars, orch_vars, hs_vars, event_vars, pure_vars>>

\* ------------------------------------------------------------- disconnect
TaskExceptions == {"JSONDecodeError", "AttributeError", "InvalidStateError"}

\* the identifier of the request an invocation is waiting for
CurId(i) == IF hist_id[i] # 0 THEN hist_id[i] ELSE send_id[i]

\* the invoke_agent() calls suspended on a future that nothing has yet
\* resolved: that of a request() they made, or their response_future
SuspendedInvs ==
    {i \in Invs : \/ ipc[i] \in {"send_wait", "hist_wait"} /\ fut[CurId(i)].st = "pending"
                  \/ ipc[i] = "final_wait" /\ response_future[i].st = "pending"}

\* disconnect(), lines 120-126: clear the flag, cancel the receive task and
\* await it.  Awaiting a task that ended with an exception other than
\* CancelledError re-raises that exception and the call ends there.
DisconnectStart ==
    /\ disc = "idle"
    /\ connected' = FALSE
    /\ receive_task' = IF receive_task = "running" THEN "cancelled" ELSE receive_task
    /\ IF receive_task \in TaskExceptions
         THEN disc_raised' = receive_task /\ UNCHANGED disc
         ELSE /\ UNCHANGED disc_raised
              /\ disc' = IF ws = "none" THEN "idle" ELSE "closing"
    /\ disc_snapshot' = IF disc_snapshot.taken THEN disc_snapshot
                        ELSE [taken |-> TRUE, invs |-> SuspendedInvs]
    /\ UNCHANGED <<ws, connect_called, req_vars, gw_vars, proc_vars, inv_vars, orch_vars, hs_vars, event_vars, pure_vars>>

\* disconnect(), lines 127-128: close the transport
DisconnectFinish ==
    /\ disc = "closing"
    /\ disc' = "idle"
    /\ ws' = "closed"
    /\ gw_unanswered' = {}
    /\ UNCHANGED <<connected, receive_task, connect_called, req_vars, inbox, gw_runs,
                   disc_raised, disc_snapshot, proc_vars, inv_vars, orch_vars, hs_vars, event_vars, pure_vars>>

\* ----------------------------------------------------------- invoke_agent
Remove(s, i) == SelectSeq(s, LAMBDA h : h # i)

\* on_event for both handlers of invocation i (lines 284-285, 198-202)
Subscribed(table, i) == [chat |-> Append(table.chat, i), agent |-> Append(table.agent, i)]

\* (mutation of Unsubscribed: only the "chat" handler is removed)
UnsubscribedChatOnly(table, i) == [chat |-> Remove(table.chat, i), agent |-> table.agent]

\* (mutation of Unsubscribed: the handler registered last is removed, as
\* by list.pop())
UnsubscribedLast(table, i) ==
    [chat |-> SubSeq(table.chat, 1, Len(table.chat) - 1),
     agent |-> SubSeq(table.agent, 1, Len(table.agent) - 1)]

\* the finally clause (lines 335-341)
Unsubscribed(table, i) == [chat |-> Remove(table.chat, i), agent |-> Remove(table.agent, i)]

\* "".join(streamed_text_parts) (lines 318 and 333)
RECURSIVE Joined(_)
Joined(parts) == IF parts = <<>> THEN <<>> ELSE Head(parts) \o Joined(Tail(parts))

\* what invoke_agent returns: where the content comes from, the content,
\* and the "runId" entry
Content(src, parts, run) == [src |-> src, parts |-> parts, runId |-> run]

\* (mutation of TimeoutOutcome: the streamed fragments are not used)
TimeoutOutcomeEmpty(i) == Outcome("timeout", Content("none", <<>>, run_id[i]))

\* lines 330-334: what invoke_agent returns when a TimeoutError reaches its
\* except clause (asyncio.TimeoutError is the builtin TimeoutError)
TimeoutOutcome(i) ==
    IF streamed[i] # <<>>
      THEN Outcome("content", Content("streamed", streamed[i], run_id[i]))
      ELSE Outcome("timeout", Content("none", <<>>, run_id[i]))

\* invoke_agent ends (returns or raises) through its finally clause
Exit(i, table, outcome) ==
    /\ ipc' = [ipc EXCEPT ![i] = "done"]
    /\ iout' = [iout EXCEPT ![i] = outcome]
    /\ event_handlers' = Unsubscribed(table, i)

Raised(exc) == Outcome(exc, Content("none", <<>>, NoVal))

\* invoke_agent, lines 252-289: subscribe the two handlers and call
\* request("chat.send"), up to the suspension in wait_for.
InvokeBegin(i) ==
    /\ ipc[i] = "idle"
    /\ IF ~connected
         THEN /\ Exit(i, Subscribed(event_handlers, i), Raised("ConnectionError"))
              /\ UNCHANGED <<req_vars, gw_unanswered, send_id>>
         ELSE /\ SendEnvelope
              /\ send_id' = [send_id EXCEPT ![i] = NextId]
              /\ IF ws = "open"
                   THEN /\ ipc' = [ipc EXCEPT ![i] = "send_wait"]
                        /\ event_handlers' = Subscribed(event_handlers, i)
                        /\ UNCHANGED iout
                   ELSE Exit(i, Subscribed(event_handlers, i), Raised("ConnectionClosed"))
    /\ UNCHANGED <<conn_vars, inbox, gw_runs, disc_vars, proc_vars, hist_id, run_id,
                   response_future, streamed, orch_vars, hs_vars, event_vars, pure_vars>>

\* lines 289-294: chat.send returned; remember the run identifier and wait
\* for the completion event.
InvSendReturn(i) ==
    /\ ipc[i] = "send_wait"
    /\ fut[send_id[i]].st = "result"
    /\ run_id' = [run_id EXCEPT ![i] = RunOf(fut[send_id[i]].val[2])]
    /\ ipc' = [ipc EXCEPT ![i] = "final_wait"]
    /\ UNCHANGED <<conn_vars, req_vars, gw_vars, disc_vars, proc_vars, event_handlers,
                   send_id, hist_id, response_future, streamed, iout, orch_vars, hs_vars, event_vars, pure_vars>>

\* request() re-raises the gateway's error (lines 156, 193); invoke_agent
\* lets it through.
InvRequestRaise(i) ==
    /\ ipc[i] \in {"send_wait", "hist_wait"}
    /\ fut[CurId(i)].st = "exception"
    /\ Exit(i, event_handlers, Raised("Exception"))
    /\ UNCHANGED <<conn_vars, req_vars, gw_vars, disc_vars, proc_vars, send_id, hist_id,
                   run_id, response_future, streamed, orch_vars, hs_vars, event_vars, pure_vars>>

\* the timeout of request()'s wait_for expires (line 193)
InvRequestTimeoutFire(i) ==
    /\ ipc[i] \in {"send_wait", "hist_wait"}
    /\ fut[CurId(i)].st = "pending"
    /\ fut' = [fut EXCEPT ![CurId(i)] = [st |-> "cancelled", val |-> NoVal]]
    /\ ipc' = [ipc EXCEPT ![i] = "req_timed_out"]
    /\ UNCHANGED <<conn_vars, request_id, pending_requests, gw_vars, disc_vars, proc_vars,
                   event_handlers, send_id, hist_id, run_id, response_future, streamed,
                   iout, orch_vars, hs_vars, event_vars, pure_vars>>

\* request() resumes with the timeout (lines 194-196) and its TimeoutError
\* is caught by invoke_agent (lines 330-334).
InvRequestTimeoutResume(i) ==
    /\ ipc[i] = "req_timed_out"
    /\ pending_requests' = Deregister(pending_requests, CurId(i))
    /\ Exit(i, event_handlers, TimeoutOutcome(i))
    /\ UNCHANGED <<conn_vars, request_id, fut, gw_vars, disc_vars, proc_vars, send_id,
                   hist_id, run_id, response_future, streamed, orch_vars, hs_vars, event_vars, pure_vars>>

\* lines 294-300: the completion event has resolved response_future; call
\* request("chat.history"), up to the suspension in wait_for.
InvFinalResume(i) ==
    /\ ipc[i] = "final_wait"
    /\ response_future[i].st = "result"
    /\ IF ~connected
         THEN /\ Exit(i, event_handlers, Raised("ConnectionError"))
              /\ UNCHANGED <<req_vars, gw_unanswered, hist_id>>
         ELSE /\ SendEnvelope
              /\ hist_id' = [hist_id EXCEPT ![i] = NextId]
              /\ IF ws = "open"
                   THEN /\ ipc' = [ipc EXCEPT ![i] = "hist_wait"]
                        /\ UNCHANGED <<event_handlers, iout>>
                   ELSE Exit(i, event_handlers, Raised("ConnectionClosed"))
    /\ UNCHANGED <<conn_vars, inbox, gw_runs, disc_vars, proc_vars, send_id, run_id,
                   response_future, streamed, orch_vars, hs_vars, event_vars, pure_vars>>

\* completion_timeout expires (line 294): response_future is cancelled
InvFinalTimeoutFire(i) ==
    /\ ipc[i] = "final_wait"
    /\ response_future[i].st = "pending"
    /\ response_future' = [response_future EXCEPT ![i] = [st |-> "cancelled", val |-> NoVal]]
    /\ ipc' = [ipc EXCEPT ![i] = "final_timed_out"]
    /\ UNCHANGED <<conn_vars, req_vars, gw_vars, disc_vars, proc_vars, event_handlers,
                   send_id, hist_id, run_id, streamed, iout, orch_vars, hs_vars, event_vars, pure_vars>>

\* invoke_agent resumes with the timeout (lines 330-334)
InvFinalTimeoutResume(i) ==
    /\ ipc[i] = "final_timed_out"
    /\ Exit(i, event_handlers, TimeoutOutcome(i))
    /\ UNCHANGED <<conn_vars, req_vars, gw_vars, disc_vars, proc_vars, send_id, hist_id,
                   run_id, response_future, streamed, orch_vars, hs_vars, event_vars, pure_vars>>

\* what the scan of a transcript finds, and in which turn (0: in none)
Found(found, turn) == [found |-> found, turn |-> turn]

\* the text of the k-th turn of the fetched transcript
TurnText(k) == <<"turn", k>>

\* (mutation of ScanTurns: the transcript is read oldest turn first)
ScanOldestFirst(turns, k) ==
    LET at == {j \in 1..Len(turns) : turns[j] \in {"assistant_error", "assistant_text"}}
        j == CHOOSE j \in at : \A l \in at : j <= l
    IN IF at = {} THEN Found("none", 0)
       ELSE Found(IF turns[j] = "assistant_error" THEN "llm_error" ELSE "text", j)

\* lines 305-314: the loop over reversed(messages), from turn k down: the
\* first assistant turn that signals an error or has usable text decides;
\* an assistant turn whose text is blank is passed over
RECURSIVE ScanTurns(_, _)
ScanTurns(turns, k) ==
    IF k = 0 THEN Found("none", 0)
    ELSE IF turns[k] = "assistant_error" THEN Found("llm_error", k)
    ELSE IF turns[k] = "assistant_text" THEN Found("text", k)
    ELSE ScanTurns(turns, k - 1)

\* lines 302-328: what invoke_agent returns from the fetched transcript, the
\* streamed fragments and the completion event's payload
Answer(i, history) ==
    LET scan == ScanTurns(Turns(history), Len(Turns(history)))
    IN CASE scan.found = "text" ->
              Outcome("content", Content("transcript", <<TurnText(scan.turn)>>, run_id[i]))
         [] scan.found = "llm_error" -> Outcome("llm_error", Content("none", <<>>, run_id[i]))
         [] OTHER ->
              IF streamed[i] # <<>>
                THEN Outcome("content", Content("streamed", streamed[i], run_id[i]))
                ELSE IF response_future[i].val # NoVal
                       THEN Outcome("content", Content("inline", <<>>, run_id[i]))
                       ELSE Outcome("empty_response", Content("none", <<>>, run_id[i]))

\* chat.history returned (lines 297-328)
InvHistReturn(i) ==
    /\ ipc[i] = "hist_wait"
    /\ fut[hist_id[i]].st = "result"
    /\ Exit(i, event_handlers, Answer(i, fut[hist_id[i]].val[1]))
    /\ UNCHANGED <<conn_vars, req_vars, gw_vars, disc_vars, proc_vars, send_id, hist_id,
                   run_id, response_future, streamed, orch_vars, hs_vars, event_vars, pure_vars>>

\* ------------------------------------------------ what invoke_agent yields
\* The orchestrators see invoke_agent() through what it returns or raises
\* (src/moltbot_client.py lines 310-334 and the exceptions request() lets
\* through).  A returned text is one of: blank, not JSON, JSON that is not
\* an object, or a JSON object.

MinEventsRetry == 6

\* the agent's JSON object for a site, by the keys _parse_agent_response reads
SiteData ==
    [listing_urls : {{}, {"listing"}, {"junk"}},
     product_urls : {{}, {"product"}},
     security_issues : {{}, {"blocked"}, {"unlisted"}},
     error : {"None", "", "agent said"}]

\* the agent's JSON object for a venue, by the keys _parse_response reads
VenueData ==
    [events : {0, 5, 6, 7}, error : {"None", "agent said"}]

NoData == [none |-> TRUE]

Raise(exc, text) == [kind |-> "raise", exc |-> exc, text |-> text, data |-> NoData]
Returned(kind, text, data) == [kind |-> kind, exc |-> "none", text |-> text, data |-> data]

AgentRaises ==
    {Raise("ConnectionError", "Not connected to MoltBot Gateway"),
     Raise("ConnectionClosed", "no close frame received or sent"),
     Raise("Exception", "gateway error"),
     Raise("Exception", ""),
     Raise("TimeoutError", "Request 'chat.send' timed out after 30.0s")}

AgentReturnsNoData ==
    {Returned("timeout", "", NoData),
     Returned("error", "LLM error: rate limit", NoData),
     Returned("error", "Agent returned empty response", NoData),
     Returned("content", "blank", NoData),
     Returned("content", "not json", NoData),
     Returned("content", "json array", NoData)}

AgentResults(m) ==
    AgentRaises \cup AgentReturnsNoData \cup
    {Returned("content", "json object", d) : d \in IF m = "sites" THEN SiteData ELSE VenueData}

\* the answers drawn when several targets run at once
BatchAgentResults(m) ==
    {Raise("ConnectionClosed", "no close frame received or sent"),
     Returned("timeout", "", NoData),
     IF m = "sites"
       THEN Returned("content", "json object",
                     [listing_urls |-> {"listing"}, product_urls |-> {"product"},
                      security_issues |-> {}, error |-> "None"])
       ELSE Returned("content", "json object", [events |-> 7, error |-> "None"])}

\* ------------------------------------------------------- pure functions
Truthy(text) == text \notin {"None", ""}

\* _filter_urls (src/moltbot_scraper.py lines 228-253): junk entries are dropped
FilterUrls(found) == found \ {"junk"}

\* lines 446-458: labels outside security_map are dropped
MapIssues(labels) == labels \cap {"cloudflare", "captcha", "bot_protection", "blocked", "timeout"}

\* what a parser yields: a record, or the exception it lets through
Parsed(rec) == [raised |-> FALSE, exc |-> "none", text |-> "", rec |-> rec]
ParseRaises(exc, text) == [raised |-> TRUE, exc |-> exc, text |-> text, rec |-> NoRecord]

\* MoltBotScraper._parse_agent_response (lines 393-490)
ParseAgentResponse(t, r) ==
    CASE r.kind = "error" -> Parsed(Record(t, {}, {}, {}, 0, r.text))
      [] r.kind = "timeout" -> Parsed(Record(t, {}, {}, {"timeout"}, 0, "Agent timed out"))
      [] r.text = "blank" -> Parsed(Record(t, {}, {}, {}, 0, "Agent returned empty response"))
      [] r.text = "not json" -> Parsed(Record(t, {}, {}, {}, 0, "Failed to parse agent response"))
      [] r.text = "json array" -> ParseRaises("AttributeError", "'list' object has no attribute 'get'")
      [] OTHER -> Parsed(Record(t, FilterUrls(r.data.listing_urls), FilterUrls(r.data.product_urls),
                                MapIssues(r.data.security_issues), 0, r.data.error))

\* EventsScraper._parse_response (lines 233-270)
ParseResponse(t, r) ==
    CASE r.kind = "error" -> Parsed(Record(t, {}, {}, {}, 0, r.text))
      [] r.kind = "timeout" -> Parsed(Record(t, {}, {}, {}, 0, "Agent timed out"))
      [] r.text = "blank" -> Parsed(Record(t, {}, {}, {}, 0, "Agent returned empty response"))
      [] r.text = "not json" -> Parsed(Record(t, {}, {}, {}, 0, "Failed to parse agent response"))
      [] r.text = "json array" -> ParseRaises("AttributeError", "'list' object has no attribute 'get'")
      [] OTHER -> Parsed(Record(t, {}, {}, {}, r.data.events, r.data.error))

\* (mutation of ShouldRetry: the no-data condition is dropped)
ShouldRetryWithData(a) == a.security_issues # {} \/ Truthy(a.error_message)

\* MoltBotScraper._should_retry (lines 360-372)
ShouldRetry(a) ==
    LET has_security_issues == a.security_issues # {} /\ \E s \in a.security_issues : s # "none"
        has_error == Truthy(a.error_message)
        has_no_data == a.listing_urls = {} /\ a.product_urls = {}
    IN has_no_data /\ (has_security_issues \/ has_error)

\* (mutation of MergeAnalyses: the error message is never cleared)
MergeKeepError(a, b) ==
    LET first_score == Cardinality(a.listing_urls) + Cardinality(a.product_urls)
        retry_score == Cardinality(b.listing_urls) + Cardinality(b.product_urls)
        best == IF retry_score > first_score THEN b ELSE a
    IN [best EXCEPT !.security_issues = (a.security_issues \cup b.security_issues) \ {"none"}]

\* (mutation of MergeAnalyses: the kept attempt keeps its own indicators)
MergeOwnIssues(a, b) ==
    LET first_score == Cardinality(a.listing_urls) + Cardinality(a.product_urls)
        retry_score == Cardinality(b.listing_urls) + Cardinality(b.product_urls)
        best == IF retry_score > first_score THEN b ELSE a
    IN [best EXCEPT !.error_message = IF retry_score > 0 THEN "None" ELSE @]

\* MoltBotScraper._merge_analyses (lines 374-391)
MergeAnalyses(a, b) ==
    LET first_score == Cardinality(a.listing_urls) + Cardinality(a.product_urls)
        retry_score == Cardinality(b.listing_urls) + Cardinality(b.product_urls)
        best == IF retry_score > first_score THEN b ELSE a
        all_issues == (a.security_issues \cup b.security_issues) \ {"none"}
    IN [best EXCEPT !.security_issues = all_issues,
                    !.error_message = IF retry_score > 0 THEN "None" ELSE @]

\* the except clauses of analyze_site (lines 317-329)
SiteExcept(t, exc, text) ==
    IF exc = "TimeoutError"
      THEN Record(t, {}, {}, {"timeout"}, 0, "MoltBot agent timeout")
      ELSE Record(t, {}, {}, {}, 0, text)

\* the except clauses of scrape_venue (lines 222-231)
VenueExcept(t, exc, text) ==
    IF exc = "TimeoutError"
      THEN Record(t, {}, {}, {}, 0, "MoltBot agent timeout")
      ELSE Record(t, {}, {}, {}, 0, text)

\* the except clause of _retry_site (lines 352-358)
RetryFailed(t) == Record(t, {}, {}, {}, 0, "Retry failed")

\* --------------------------------------------------- semaphore and gather
\* asyncio.Semaphore as analyze_sites / scrape_venues use it
\* (src/moltbot_scraper.py lines 495-499, src/events_scraper.py lines 275-279).

\* (mutation of Locked: the semaphore always admits)
LockedNever(value, waiters) == FALSE

\* Semaphore.locked(): acquire() cannot return at once
Locked(value, waiters) == value = 0 \/ waiters # <<>>

\* Semaphore._wake_up_next(): the oldest waiter not yet woken takes a slot
WakeUpNext(sem, tp) ==
    LET waiting == {k \in 1..Len(sem.waiters) : tp[sem.waiters[k]] = "waiting"}
    IN IF waiting = {}
         THEN [sem |-> sem, tp |-> tp]
         ELSE LET k == CHOOSE j \in waiting : \A i \in waiting : j <= i
              IN [sem |-> [sem EXCEPT !.value = @ - 1],
                  tp |-> [tp EXCEPT ![sem.waiters[k]] = "woken"]]

\* (mutation of Release: the slot is handed back and nobody is woken)
ReleaseSilently(sem, tp) == [sem |-> [sem EXCEPT !.value = @ + 1], tp |-> tp]

\* Semaphore.release(), on leaving `async with semaphore`
Release(sem, tp) == WakeUpNext([sem EXCEPT !.value = @ + 1], tp)

\* (mutation of Gather: the results in the order the tasks ended)
GatherByCompletion(results, order) == [k \in 1..Len(order) |-> results[order[k]]]

\* asyncio.gather(*tasks): the results in the order of the tasks
Gather(results, order) == [k \in 1..Len(order) |-> results[k]]

\* ------------------------------------------------------------ orchestrator
\* main.py / events_main.py: analyze_site(url) or scrape_venue(url) awaited
\* directly, one target at a time
SiteCall(m, u) ==
    /\ batch = "idle"
    /\ mode' = m
    /\ urls' = [urls EXCEPT ![1] = u]
    /\ batch' = "single"
    /\ UNCHANGED <<conn_vars, req_vars, gw_vars, disc_vars, proc_vars, inv_vars, hs_vars, event_vars, pure_vars,
                   batch_out, sem_value, sem_waiters, tpc, calls, first, result, session, finished>>

\* analyze_sites(urls, concurrency) / scrape_venues(urls, concurrency), up to
\* the suspension in gather: the semaphore is created and one task per
\* target is scheduled
BatchStart(m, us) ==
    /\ batch = "idle"
    /\ mode' = m
    /\ urls' = us
    /\ batch' = "running"
    /\ sem_value' = Concurrency
    /\ UNCHANGED <<conn_vars, req_vars, gw_vars, disc_vars, proc_vars, inv_vars, hs_vars, event_vars, pure_vars,
                   batch_out, sem_waiters, tpc, calls, first, result, session, finished>>

\* The task of target t ends: analyze_site / scrape_venue returned rec or
\* raised, `async with` releases the semaphore, and gather's callback either
\* fails the batch with the first exception or, after the last task,
\* resolves it with the list of results.
End(t, how, rec, sem, tp) ==
    LET tp1 == [tp EXCEPT ![t] = how]
        rel == IF batch = "single" THEN [sem |-> sem, tp |-> tp1] ELSE Release(sem, tp1)
        results == [result EXCEPT ![t] = rec]
        order == Append(finished, t)
        outer == IF batch # "running" THEN batch
                 ELSE IF how = "raised" THEN "raised"
                 ELSE IF Len(order) = NTargets THEN "returned"
                 ELSE "running"
    IN /\ tpc' = rel.tp
       /\ sem_value' = rel.sem.value
       /\ sem_waiters' = rel.sem.waiters
       /\ result' = results
       /\ finished' = order
       /\ batch' = outer
       /\ batch_out' = IF batch = "running" /\ outer = "returned"
                         THEN Gather(results, order) ELSE batch_out

\* uuid.uuid4().hex[:8], drawn for attempt n of target t: every draw gives a
\* value of its own
Uuid4(t, n) == <<"uuid4", t, n>>

\* the session key of the first invoke_agent() (analyze_site line 284,
\* scrape_venue line 166): a fixed prefix and eight hex digits of a uuid4
FirstKey(m, u) ==
    IF m = "sites" THEN <<"agent:main:scraper-", u>> ELSE <<"agent:events:scraper-", u>>

\* the session key of the second invoke_agent(): _retry_site is handed the
\* key of the first (lines 310, 348); scrape_venue makes a new one (line 198)
RetryKey(m, key, u) ==
    IF m = "sites" THEN key ELSE <<"agent:events:retry-", u>>

\* analyze_site lines 274-301 / scrape_venue lines 161-177: from the entry to
\* the suspension in the first invoke_agent().  urlparse() is called before
\* the try statement and raises ValueError on a url such as "https://[".
Enter(t, sem, tp) ==
    IF urls[t] = "malformed"
      THEN /\ End(t, "raised", NoRecord, sem, tp)
           /\ UNCHANGED <<calls, first, session>>
      ELSE /\ tpc' = [tp EXCEPT ![t] = "first"]
           /\ calls' = [calls EXCEPT ![t] = @ + 1]
           /\ session' = [session EXCEPT ![t].first = FirstKey(mode, Uuid4(t, 1))]
           /\ sem_value' = sem.value
           /\ sem_waiters' = sem.waiters
           /\ UNCHANGED <<first, result, finished, batch, batch_out>>

\* The task of target t starts: `async with semaphore` either queues it or
\* takes a slot and goes on into analyze_site / scrape_venue.  Tasks start
\* in the order gather scheduled them.
TaskStart(t) ==
    /\ tpc[t] = "unstarted"
    /\ batch \in {"single", "running", "raised"}
    /\ batch = "single" => t = 1
    /\ \A s \in Targets : s < t => tpc[s] # "unstarted"
    /\ IF batch = "single"
         THEN Enter(t, [value |-> sem_value, waiters |-> sem_waiters], tpc)
         ELSE IF Locked(sem_value, sem_waiters)
                THEN /\ tpc' = [tpc EXCEPT ![t] = "waiting"]
                     /\ sem_waiters' = Append(sem_waiters, t)
                     /\ UNCHANGED <<sem_value, calls, first, result, session, finished, batch, batch_out>>
                ELSE Enter(t, [value |-> sem_value - 1, waiters |-> sem_waiters], tpc)
    /\ UNCHANGED <<conn_vars, req_vars, gw_vars, disc_vars, proc_vars, inv_vars, hs_vars, event_vars, pure_vars, mode, urls>>

\* A woken waiter resumes inside Semaphore.acquire(): it leaves the queue,
\* passes a free slot on if there is one, and goes on into analyze_site /
\* scrape_venue.
TaskResume(t) ==
    /\ tpc[t] = "woken"
    /\ LET sem == [value |-> sem_value, waiters |-> Remove(sem_waiters, t)]
           wk == IF sem_value > 0 THEN WakeUpNext(sem, tpc) ELSE [sem |-> sem, tp |-> tpc]
       IN Enter(t, wk.sem, wk.tp)
    /\ UNCHANGED <<conn_vars, req_vars, gw_vars, disc_vars, proc_vars, inv_vars, hs_vars, event_vars, pure_vars, mode, urls>>

Parse(m, t, r) == IF m = "sites" THEN ParseAgentResponse(t, r) ELSE ParseResponse(t, r)
Except(m, t, exc, text) == IF m = "sites" THEN SiteExcept(t, exc, text) ELSE VenueExcept(t, exc, text)

\* analyze_site line 306 / scrape_venue line 190
NeedsRetry(m, a) == IF m = "sites" THEN ShouldRetry(a) ELSE a.events < MinEventsRetry

\* The first invoke_agent() of target t ends with r (analyze_site lines
\* 296-329, scrape_venue lines 172-231): parse the answer, then either
\* return or go into the second invoke_agent().
FirstReturn(t, r) ==
    /\ tpc[t] = "first"
    /\ LET sem == [value |-> sem_value, waiters |-> sem_waiters]
           p == Parse(mode, t, r)
       IN IF r.kind = "raise"
            THEN /\ End(t, "done", Except(mode, t, r.exc, r.text), sem, tpc)
                 /\ UNCHANGED <<calls, first, session>>
            ELSE IF p.raised
                   THEN /\ End(t, "done", Except(mode, t, p.exc, p.text), sem, tpc)
                        /\ UNCHANGED <<calls, first, session>>
                   ELSE /\ first' = [first EXCEPT ![t] = p.rec]
                        /\ IF NeedsRetry(mode, p.rec)
                             THEN /\ tpc' = [tpc EXCEPT ![t] = "retry"]
                                  /\ calls' = [calls EXCEPT ![t] = @ + 1]
                                  /\ session' = [session EXCEPT ![t].retry =
                                                  RetryKey(mode, session[t].first, Uuid4(t, 2))]
                                  /\ UNCHANGED <<sem_value, sem_waiters, result, finished,
                                                 batch, batch_out>>
                             ELSE /\ End(t, "done", p.rec, sem, tpc)
                                  /\ UNCHANGED <<calls, session>>
    /\ UNCHANGED <<conn_vars, req_vars, gw_vars, disc_vars, proc_vars, inv_vars, hs_vars, event_vars, pure_vars, mode, urls>>

\* _retry_site (lines 346-358) and the merge (lines 311-313)
SiteRetryResult(t, fst, r) ==
    LET p == ParseAgentResponse(t, r)
        retry_analysis == IF r.kind = "raise" \/ p.raised THEN RetryFailed(t) ELSE p.rec
    IN MergeAnalyses(fst, retry_analysis)

\* (mutation of VenueRetryResult: a retry that parsed is always preferred)
VenueRetryAlways(t, fst, r) ==
    LET p == ParseResponse(t, r)
    IN IF r.kind = "raise" THEN VenueExcept(t, r.exc, r.text)
       ELSE IF p.raised THEN VenueExcept(t, p.exc, p.text)
       ELSE p.rec

\* scrape_venue lines 201-231
VenueRetryResult(t, fst, r) ==
    LET p == ParseResponse(t, r)
    IN IF r.kind = "raise" THEN VenueExcept(t, r.exc, r.text)
       ELSE IF p.raised THEN VenueExcept(t, p.exc, p.text)
       ELSE IF p.rec.events > fst.events THEN p.rec
       ELSE fst

\* (mutation of RetryReturn: a weak retry is followed by another attempt)
RetryReturnChained(t, r) ==
    /\ tpc[t] = "retry"
    /\ calls[t] < 3
    /\ calls' = [calls EXCEPT ![t] = @ + 1]
    /\ UNCHANGED <<conn_vars, req_vars, gw_vars, disc_vars, proc_vars, inv_vars, hs_vars, event_vars, pure_vars, mode, urls,
                   batch, batch_out, sem_value, sem_waiters, tpc, first, result, session, finished>>

\* The second invoke_agent() of target t ends with r: the target's result
\* is decided and the task ends.
RetryReturn(t, r) ==
    /\ tpc[t] = "retry"
    /\ End(t, "done",
           IF mode = "sites" THEN SiteRetryResult(t, first[t], r)
                             ELSE VenueRetryResult(t, first[t], r),
           [value |-> sem_value, waiters |-> sem_waiters], tpc)
    /\ UNCHANGED <<conn_vars, req_vars, gw_vars, disc_vars, proc_vars, inv_vars, hs_vars, event_vars, pure_vars, mode, urls,
                   calls, first, session>>

\* ---------------------------------------------------------- _merge_analyses
\* the analyses _merge_analyses is applied to: up to two listing URLs, up to
\* one product URL, any indicators (the NONE sentinel included), an error
\* message or none
Analyses ==
    {Record(1, l, p, i, 0, e) : l \in SUBSET {"listing a", "listing b"}, p \in SUBSET {"product"},
                                i \in SUBSET {"none", "blocked", "timeout"},
                                e \in {"None", "blocked by the site"}}

MergeCall ==
    /\ merge_out = NoRecord
    /\ merge_out' = MergeAnalyses(merge_in.first, merge_in.retry)
    /\ UNCHANGED <<conn_vars, req_vars, gw_vars, disc_vars, proc_vars, inv_vars, orch_vars, hs_vars, event_vars, merge_in,
                   filter_vars, extract_vars, parse_vars>>

\* ------------------------------------------------------------------ Spec
ClientStep ==
    \/ Connect
    \/ \E n \in Ids, ok \in BOOLEAN : \E b \in Bodies(n) : GatewayReply(n, ok, b)
    \/ \E k \in JunkKinds : GatewayJunk(k)
    \/ \E k \in CloseKinds : TransportClose(k)
    \/ ReceiveRes
    \/ ReceiveOther
    \/ DisconnectStart
    \/ DisconnectFinish

Next ==
    \/ ClientStep
    \/ \E p \in Procs : RequestNotConnected(p)
    \/ \E p \in Procs : RequestSend(p)
    \/ \E p \in Procs : RequestReturn(p)
    \/ \E p \in Procs : RequestRaise(p)
    \/ \E p \in Procs : TimeoutFire(p)
    \/ \E p \in Procs : TimeoutResume(p)

Spec == Init /\ [][Next]_vars

NextInv ==
    \/ ClientStep
    \/ ReceiveEvent
    \/ \E n \in Ids, empty \in BOOLEAN : GatewayFragment(n, empty)
    \/ \E n \in Ids, inline \in BOOLEAN : GatewayFinal(n, inline)
    \/ InvokeBegin(1)
    \/ \E i \in Invs : InvSendReturn(i)
    \/ \E i \in Invs : InvRequestRaise(i)
    \/ \E i \in Invs : InvRequestTimeoutFire(i)
    \/ \E i \in Invs : InvRequestTimeoutResume(i)
    \/ \E i \in Invs : InvFinalResume(i)
    \/ \E i \in Invs : InvFinalTimeoutFire(i)
    \/ \E i \in Invs : InvFinalTimeoutResume(i)
    \/ \E i \in Invs : InvHistReturn(i)

SpecInv == Init /\ [][NextInv]_vars

NextDispatch ==
    \/ Connect
    \/ \E n \in Ids, ok \in BOOLEAN : \E b \in Bodies(n) : GatewayReply(n, ok, b)
    \/ \E n \in Ids : GatewayFragment(n, FALSE)
    \/ \E n \in Ids, inline \in BOOLEAN : GatewayFinal(n, inline)
    \/ ReceiveRes
    \/ ReceiveEvent
    \/ \E i \in Invs : InvokeBegin(i)
    \/ \E i \in Invs : InvSendReturn(i)
    \/ \E i \in Invs : InvRequestRaise(i)
    \/ \E i \in Invs : InvRequestTimeoutFire(i)
    \/ \E i \in Invs : InvRequestTimeoutResume(i)
    \/ \E i \in Invs : InvFinalResume(i)
    \/ \E i \in Invs : InvFinalTimeoutFire(i)
    \/ \E i \in Invs : InvFinalTimeoutResume(i)
    \/ \E i \in Invs : InvHistReturn(i)

SpecDispatch == Init /\ [][NextDispatch]_vars

UrlKinds == {"wellformed", "malformed"}
Modes == {"sites", "venues"}

NextSite ==
    \/ \E m \in Modes, u \in UrlKinds : SiteCall(m, u)
    \/ TaskStart(1)
    \/ \E r \in AgentResults(mode) : FirstReturn(1, r)
    \/ \E r \in AgentResults(mode) : RetryReturn(1, r)

SpecSite == Init /\ [][NextSite]_vars

NextBatch ==
    \/ \E m \in Modes, us \in [Targets -> UrlKinds] : BatchStart(m, us)
    \/ \E t \in Targets : TaskStart(t)
    \/ \E t \in Targets : TaskResume(t)
    \/ \E t \in Targets, r \in BatchAgentResults(mode) : FirstReturn(t, r)
    \/ \E t \in Targets, r \in BatchAgentResults(mode) : RetryReturn(t, r)

SpecBatch == Init /\ [][NextBatch]_vars

\* The same under the event loop's scheduling: a task that is ready to run
\* is run, and every invoke_agent() that was started ends.
BatchFairness ==
    \A t \in Targets :
        /\ WF_vars(TaskStart(t))
        /\ WF_vars(TaskResume(t))
        /\ WF_vars(\E r \in BatchAgentResults(mode) : FirstReturn(t, r))
        /\ WF_vars(\E r \in BatchAgentResults(mode) : RetryReturn(t, r))

SpecBatchFair == Init /\ [][NextBatch]_vars /\ BatchFairness

InitMerge ==
    /\ ClientInit /\ HandshakeInit(BasicHandshakes) /\ ProcInit /\ InvInit /\ OrchInit
    /\ merge_in \in [first : Analyses, retry : Analyses]
    /\ merge_out = NoRecord
    /\ FilterIdle
    /\ ExtractIdle
    /\ ParseIdle

NextMerge == MergeCall

SpecMerge == InitMerge /\ [][NextMerge]_vars

\* Several invoke_agent() calls at once on a gateway that also pushes events
\* of no run of this client; no timer fires.
NextEvents ==
    \/ Connect
    \/ \E n \in Ids, ok \in BOOLEAN : \E b \in PlainBodies(n) : GatewayReply(n, ok, b)
    \/ \E n \in Ids : GatewayFragment(n, FALSE)
    \/ \E n \in Ids, inline \in BOOLEAN : GatewayFinal(n, inline)
    \/ \E s \in Strays : GatewayStray(s[1], s[2])
    \/ ReceiveRes
    \/ ReceiveEvent
    \/ \E i \in Invs : InvokeBegin(i)
    \/ \E i \in Invs : InvSendReturn(i)
    \/ \E i \in Invs : InvRequestRaise(i)
    \/ \E i \in Invs : InvFinalResume(i)
    \/ \E i \in Invs : InvHistReturn(i)

SpecEvents == Init /\ [][NextEvents]_vars

\* connect() alone, against every gateway
InitConnect == ClientInit /\ HandshakeInit(Handshakes) /\ ProcInit /\ InvInit /\ OrchInit /\ PureInit
NextConnect == Connect
SpecConnect == InitConnect /\ [][NextConnect]_vars

\* -------------------------------------------------------------- _filter_urls
\* the cap of line 251
UrlCap == 10

\* host names, letter by letter
SiteHost == <<"a", ".", "c">>
Www(host) == <<"w", "w", "w", ".">> \o host

\* the site_domain arguments: the site with and without its www. label
SiteDomains == {SiteHost, Www(SiteHost)}

\* an entry of the agent's url list: a string that is a URL (with or without
\* surrounding white space, with or without scheme and "//"), a string of
\* white space only, or something that is not a string
Entry(type, pad, scheme, authority, path, n, suffix) ==
    [type |-> type, pad |-> pad, scheme |-> scheme, authority |-> authority,
     path |-> path, n |-> n, suffix |-> suffix]

Url(authority, path, n, suffix) == Entry("url", FALSE, TRUE, authority, path, n, suffix)
Page(k) == Url(SiteHost, "/p/", k, "")
Padded(url) == [url EXCEPT !.pad = TRUE]
Schemeless(url) == [url EXCEPT !.scheme = FALSE]
BlankString == Entry("blank", TRUE, FALSE, <<>>, "", 0, "")
NotAString == Entry("none", FALSE, FALSE, <<>>, "", 0, "")

\* the entries the short inputs are made of
UrlEntries ==
    {Page(1), Page(2), Padded(Page(1)), Url(Www(SiteHost), "/p/", 1, ""),
     Url(<<"A", ".", "c">>, "/p/", 1, ""),
     Url(SiteHost, "", 0, ""), Url(SiteHost, "/", 0, ""), Url(SiteHost, "/", 0, "?v=1"),
     Url(SiteHost, "/style.css", 0, ""), Url(SiteHost, "/sitemap.xml", 0, ""),
     Url(SiteHost, "/app.js", 0, ""), Url(SiteHost, "/app.js", 0, "?v=1"),
     Url(SiteHost, "/app.js", 0, "#top"),
     Url(<<"x">> \o SiteHost, "/p/", 1, ""), Url(<<"b", ".", "c">>, "/p/", 1, ""),
     Schemeless(Url(<<"b", ".", "c">>, "/p/", 1, "")),
     BlankString, NotAString}

\* the longest short input
MaxUrls == 2

\* the most pages of a long input
MaxPages == 12

Pages(n) == [k \in 1..n |-> Page(k)]
Insert(s, j, e) == SubSeq(s, 1, j - 1) \o <<e>> \o SubSeq(s, j, Len(s))

\* the url lists _filter_urls is applied to: every short list, and lists of
\* many pages of the site with one more entry somewhere among them
UrlLists ==
    UNION {[1..n -> UrlEntries] : n \in 0..MaxUrls}
      \cup UNION {{Insert(Pages(n), j, e) : j \in {1, 2, n, n + 1}, e \in UrlEntries} :
                      n \in (UrlCap - 1)..MaxPages}

\* str.strip()
Strip(e) == [e EXCEPT !.pad = FALSE]

\* str.lower(), letter by letter
Lower(host) == [k \in 1..Len(host) |-> IF host[k] = "A" THEN "a" ELSE host[k]]

\* str.lstrip(chars): leading letters that are in chars are dropped
RECURSIVE LStrip(_, _)
LStrip(s, chars) ==
    IF s # <<>> /\ Head(s) \in chars THEN LStrip(Tail(s), chars) ELSE s

\* `a in b` on strings
IsInfix(a, b) ==
    \E i \in 0..(Len(b) - Len(a)) : SubSeq(b, i + 1, i + Len(a)) = a

\* urlparse(url).netloc and .path: without a scheme and "//" there is no
\* netloc and the host is part of the path; query and fragment are not
Netloc(url) == IF url.scheme THEN url.authority ELSE <<>>
ParsedPath(url) ==
    IF url.scheme \/ url.authority = <<>> THEN url.path ELSE "host and path"

\* _JUNK_URL_PATTERNS.search(url) (lines 34-37): ".js" counts only at the
\* end of the url or before "?"
JunkPattern(url) ==
    \/ url.path \in {"/style.css", "/sitemap.xml"}
    \/ url.path = "/app.js" /\ url.suffix \in {"", "?v=1"}

\* _is_junk_url (lines 207-217)
IsJunkUrl(url) ==
    IF JunkPattern(url) THEN TRUE
    ELSE IF ParsedPath(url) \in {"", "/"} THEN TRUE
    ELSE FALSE

\* lines 244-248: the url names a host and site_domain is no part of it
OtherDomain(url, site_domain) ==
    LET url_domain == LStrip(Lower(Netloc(url)), {"w", "."})
        clean_site == LStrip(Lower(site_domain), {"w", "."})
    IN url_domain # <<>> /\ ~IsInfix(clean_site, url_domain)

\* (mutation of FilterLoop: no cap)
RECURSIVE FilterLoopUncapped(_, _, _, _, _)
FilterLoopUncapped(url_list, k, seen, kept, site_domain) ==
    IF k > Len(url_list) THEN kept
    ELSE IF url_list[k].type # "url" THEN FilterLoopUncapped(url_list, k + 1, seen, kept, site_domain)
    ELSE LET url == Strip(url_list[k])
         IN IF url \in seen THEN FilterLoopUncapped(url_list, k + 1, seen, kept, site_domain)
            ELSE IF IsJunkUrl(url) \/ OtherDomain(url, site_domain)
                   THEN FilterLoopUncapped(url_list, k + 1, seen \cup {url}, kept, site_domain)
            ELSE FilterLoopUncapped(url_list, k + 1, seen \cup {url}, Append(kept, url), site_domain)

\* the for loop of lines 233-252, from entry k on
RECURSIVE FilterLoop(_, _, _, _, _)
FilterLoop(url_list, k, seen, kept, site_domain) ==
    IF k > Len(url_list) THEN kept
    ELSE IF url_list[k].type # "url" THEN FilterLoop(url_list, k + 1, seen, kept, site_domain)
    ELSE LET url == Strip(url_list[k])
         IN IF url \in seen THEN FilterLoop(url_list, k + 1, seen, kept, site_domain)
            ELSE IF IsJunkUrl(url) THEN FilterLoop(url_list, k + 1, seen \cup {url}, kept, site_domain)
            ELSE IF OtherDomain(url, site_domain)
                   THEN FilterLoop(url_list, k + 1, seen \cup {url}, kept, site_domain)
            ELSE IF Len(kept) + 1 >= UrlCap THEN Append(kept, url)
            ELSE FilterLoop(url_list, k + 1, seen \cup {url}, Append(kept, url), site_domain)

\* _filter_urls(url_list, site_domain, patterns) (lines 228-253); the patterns
\* are not used
FilterUrlList(url_list, site_domain) ==
    IF url_list = <<>> THEN <<>> ELSE FilterLoop(url_list, 1, {}, <<>>, site_domain)

FilterCall ==
    /\ ~filter_out.called
    /\ filter_out' = [called |-> TRUE, urls |-> FilterUrlList(filter_in.urls, filter_in.site_domain)]
    /\ UNCHANGED <<conn_vars, req_vars, gw_vars, disc_vars, proc_vars, inv_vars, orch_vars,
                   hs_vars, event_vars, merge_in, merge_out, filter_in, extract_vars, parse_vars>>

InitFilter ==
    /\ ClientInit /\ HandshakeInit(BasicHandshakes) /\ ProcInit /\ InvInit /\ OrchInit
    /\ merge_in = [first |-> NoRecord, retry |-> NoRecord]
    /\ merge_out = NoRecord
    /\ filter_in \in [urls : UrlLists, site_domain : SiteDomains]
    /\ filter_out = NotCalled
    /\ ExtractIdle
    /\ ParseIdle

NextFilter == FilterCall

SpecFilter == InitFilter /\ [][NextFilter]_vars

\* ------------------------------------------------------ _extract_json_object
\* A text is a sequence of characters: the braces, the double quote (Q), the
\* backslash (B), a letter, the colon, the comma, a digit, and the code
\* fence ``` (F) as one character.
Q == "quote"
B == "backslash"
F == "fence"
Chars == {"{", "}", Q, B, "a", ":", "1"}

\* the longest text of the exhaustive part of the inputs
MaxText == 5

\* text.find(ch, from): the first position from `from` on that holds ch, or
\* 0 (Python's -1) if there is none
Find(text, ch, from) ==
    LET hits == {k \in from..Len(text) : text[k] = ch}
    IN IF hits = {} THEN 0 ELSE CHOOSE k \in hits : \A j \in hits : k <= j

\* json.loads, as far as it tells JSON from what is not: the position after
\* the string / number / value / object that starts at position i, or 0
RECURSIVE StringBodyEnd(_, _)
StringBodyEnd(text, j) ==
    IF j > Len(text) THEN 0
    ELSE IF text[j] = Q THEN j + 1
    ELSE IF text[j] = B
           THEN IF j + 1 <= Len(text) /\ text[j + 1] \in {Q, B}
                  THEN StringBodyEnd(text, j + 2) ELSE 0
    ELSE StringBodyEnd(text, j + 1)

StringEnd(text, i) ==
    IF i <= Len(text) /\ text[i] = Q THEN StringBodyEnd(text, i + 1) ELSE 0

RECURSIVE NumberEnd(_, _)
NumberEnd(text, i) ==
    IF i <= Len(text) /\ text[i] = "1" THEN NumberEnd(text, i + 1) ELSE i

RECURSIVE ValueEnd(_, _)
RECURSIVE MembersEnd(_, _)
MembersEnd(text, i) ==
    LET s == StringEnd(text, i)
        v == IF s # 0 /\ s <= Len(text) /\ text[s] = ":" THEN ValueEnd(text, s + 1) ELSE 0
    IN IF v = 0 \/ v > Len(text) THEN 0
       ELSE IF text[v] = "," THEN MembersEnd(text, v + 1)
       ELSE IF text[v] = "}" THEN v + 1
       ELSE 0

ValueEnd(text, i) ==
    IF i > Len(text) THEN 0
    ELSE IF text[i] = "1" THEN NumberEnd(text, i)
    ELSE IF text[i] = Q THEN StringEnd(text, i)
    ELSE IF text[i] = "{"
           THEN IF i + 1 <= Len(text) /\ text[i + 1] = "}" THEN i + 2 ELSE MembersEnd(text, i + 1)
    ELSE 0

\* json.loads(text) does not raise
JsonLoads(text) == ValueEnd(text, 1) = Len(text) + 1

\* what _extract_json_object returns: None, or the text it parsed
None == [found |-> FALSE, value |-> <<>>]
Parsed_(text) == [found |-> TRUE, value |-> text]

\* (mutation of BraceScan: a quote does not switch the scanner into a string)
RECURSIVE BraceScanNoStrings(_, _, _, _, _, _)
BraceScanNoStrings(text, start, i, depth, in_string, escape_next) ==
    IF i > Len(text) THEN None
    ELSE IF escape_next THEN BraceScanNoStrings(text, start, i + 1, depth, in_string, FALSE)
    ELSE IF text[i] = B THEN BraceScanNoStrings(text, start, i + 1, depth, in_string, TRUE)
    ELSE IF text[i] = "{" THEN BraceScanNoStrings(text, start, i + 1, depth + 1, in_string, FALSE)
    ELSE IF text[i] = "}"
           THEN IF depth - 1 = 0
                  THEN IF JsonLoads(SubSeq(text, start, i))
                         THEN Parsed_(SubSeq(text, start, i))
                         ELSE IF Find(text, "{", i + 1) = 0 THEN None
                              ELSE BraceScanNoStrings(text, Find(text, "{", i + 1), Find(text, "{", i + 1),
                                                      0, in_string, FALSE)
                  ELSE BraceScanNoStrings(text, start, i + 1, depth - 1, in_string, FALSE)
    ELSE BraceScanNoStrings(text, start, i + 1, depth, in_string, FALSE)

\* the while loop of lines 166-202, at position i
RECURSIVE BraceScan(_, _, _, _, _, _)
BraceScan(text, start, i, depth, in_string, escape_next) ==
    IF i > Len(text) THEN None
    ELSE IF escape_next THEN BraceScan(text, start, i + 1, depth, in_string, FALSE)
    ELSE IF text[i] = B THEN BraceScan(text, start, i + 1, depth, in_string, TRUE)
    ELSE IF text[i] = Q THEN BraceScan(text, start, i + 1, depth, ~in_string, FALSE)
    ELSE IF in_string THEN BraceScan(text, start, i + 1, depth, in_string, FALSE)
    ELSE IF text[i] = "{" THEN BraceScan(text, start, i + 1, depth + 1, in_string, FALSE)
    ELSE IF text[i] = "}"
           THEN IF depth - 1 = 0
                  THEN IF JsonLoads(SubSeq(text, start, i))
                         THEN Parsed_(SubSeq(text, start, i))
                         ELSE IF Find(text, "{", i + 1) = 0 THEN None
                              ELSE BraceScan(text, Find(text, "{", i + 1), Find(text, "{", i + 1),
                                             0, in_string, FALSE)
                  ELSE BraceScan(text, start, i + 1, depth - 1, in_string, FALSE)
    ELSE BraceScan(text, start, i + 1, depth, in_string, FALSE)

\* the fence pattern of line 149: the text between the first fence and the
\* next one, or none
FenceMatch(text) ==
    LET open == Find(text, F, 1)
        close == IF open = 0 THEN 0 ELSE Find(text, F, open + 1)
    IN IF close = 0 THEN [matched |-> FALSE, group |-> <<>>]
       ELSE [matched |-> TRUE, group |-> SubSeq(text, open + 1, close - 1)]

\* _extract_json_object(text) (lines 143-204)
ExtractJsonObject(text) ==
    IF FenceMatch(text).matched /\ JsonLoads(FenceMatch(text).group)
      THEN Parsed_(FenceMatch(text).group)
      ELSE IF Find(text, "{", 1) = 0 THEN None
           ELSE BraceScan(text, Find(text, "{", 1), Find(text, "{", 1), 0, FALSE, FALSE)

\* objects, written out
Str(body) == <<Q>> \o body \o <<Q>>
Obj(value) == <<"{">> \o Str(<<"a">>) \o <<":">> \o value \o <<"}">>

\* the objects the shaped inputs carry: empty, flat, with a brace in a
\* string value, with a brace after an escaped quote, with an escaped
\* backslash before the closing quote, nested, nested with braces in strings
Objects ==
    {<<"{", "}">>,
     Obj(<<"1">>),
     Obj(Str(<<"}">>)),
     Obj(Str(<<"{">>)),
     Obj(Str(<<"a", B, Q, "}">>)),
     Obj(Str(<<B, B>>)),
     Obj(Obj(<<"1">>)),
     Obj(Obj(Str(<<"}", "{">>))),
     Obj(Obj(Str(<<B, Q, "{">>)) \o <<",">> \o Str(<<"}">>) \o <<":">> \o <<"1">>)}

\* the shapes of an agent's answer around an object
Shapes == {"bare", "fenced", "trailing prose", "trailing braces", "after fragment",
           "after open brace", "within fragment", "after quoted brace", "fenced junk first"}

Shaped(shape, object) ==
    CASE shape = "bare" -> object
      [] shape = "fenced" -> <<"a", F>> \o object \o <<F, "a">>
      [] shape = "trailing prose" -> object \o <<"a", "a">>
      [] shape = "trailing braces" -> object \o <<"a", "}", "{", "a">>
      [] shape = "after fragment" -> <<"{", "a", "}", "a">> \o object
      [] shape = "after open brace" -> <<"{", "a">> \o object
      [] shape = "within fragment" -> <<"{", "a">> \o object \o <<"}">>
      [] shape = "after quoted brace" -> <<"a", Q, "{", Q, "a">> \o object
      [] shape = "fenced junk first" -> <<F, "a", F>> \o object

\* the texts _extract_json_object is applied to: an object in one of the
\* shapes, or any text of up to MaxText characters
ExtractInputs ==
    {[text |-> Shaped(s, o), shape |-> s, object |-> o] : s \in Shapes, o \in Objects}
      \cup {[text |-> t, shape |-> "any", object |-> <<>>] :
              t \in UNION {[1..n -> Chars] : n \in 0..MaxText}}

ExtractCall ==
    /\ ~extract_out.called
    /\ extract_out' = [called |-> TRUE, returned |-> ExtractJsonObject(extract_in.text)]
    /\ UNCHANGED <<conn_vars, req_vars, gw_vars, disc_vars, proc_vars, inv_vars, orch_vars,
                   hs_vars, event_vars, merge_in, merge_out, filter_vars, extract_in, parse_vars>>

InitExtract ==
    /\ ClientInit /\ HandshakeInit(BasicHandshakes) /\ ProcInit /\ InvInit /\ OrchInit
    /\ merge_in = [first |-> NoRecord, retry |-> NoRecord]
    /\ merge_out = NoRecord
    /\ FilterIdle
    /\ extract_in \in ExtractInputs
    /\ extract_out = [called |-> FALSE, returned |-> None]
    /\ ParseIdle

NextExtract == ExtractCall

SpecExtract == InitExtract /\ [][NextExtract]_vars

\* ------------------------------------------- dispatch with suspending handlers
\* The handlers of invoke_agent never suspend, so the receive loop dispatches
\* an event to them in one step (ReceiveEvent).  A handler that awaits lets
\* other tasks run between two handlers of the for loop (lines 163-167), and
\* these can subscribe (on_event, lines 198-202) and unsubscribe (lines
\* 335-341) meanwhile.  The loop iterates the list object it found in the
\* table: list, the position pos reached in it, and whether the table still
\* holds that object (shared).  began, removed and log record the list when
\* the loop began, the handlers removed meanwhile and the handlers awaited.

EventNames == {"chat", "agent"}

\* (mutation of Rebound: the handler is deleted from the list being iterated)
RemovedInPlace(list, i) == Remove(list, i)

\* line 339 binds a NEW list to the event name: the list object the loop
\* iterates keeps all its handlers
Rebound(list, i) == list

\* line 202 appends to the list object in the table: the loop sees the new
\* handler if it still iterates that object
AppendedTo(it, i) == IF it.on /\ it.shared THEN [it EXCEPT !.list = Append(@, i)] ELSE it

\* the receive loop takes an event frame and starts the for loop (line 163)
IterStart(name) ==
    /\ ~iterating.on
    /\ iterating' = [on |-> TRUE, name |-> name, list |-> event_handlers[name], pos |-> 0,
                     shared |-> TRUE, began |-> event_handlers[name], removed |-> {},
                     log |-> <<>>]
    /\ UNCHANGED <<conn_vars, req_vars, gw_vars, disc_vars, proc_vars, inv_vars, orch_vars,
                   hs_vars, dispatched, gw_strays, pure_vars>>

\* the loop awaits the next handler of the list (lines 163-167)
IterStep ==
    /\ iterating.on
    /\ iterating.pos < Len(iterating.list)
    /\ iterating' = [iterating EXCEPT !.pos = @ + 1,
                                      !.log = Append(@, iterating.list[iterating.pos + 1])]
    /\ UNCHANGED <<conn_vars, req_vars, gw_vars, disc_vars, proc_vars, inv_vars, orch_vars,
                   hs_vars, dispatched, gw_strays, pure_vars>>

\* the list is exhausted: the for loop ends
IterEnd ==
    /\ iterating.on
    /\ iterating.pos >= Len(iterating.list)
    /\ iterating' = [iterating EXCEPT !.on = FALSE]
    /\ UNCHANGED <<conn_vars, req_vars, gw_vars, disc_vars, proc_vars, inv_vars, orch_vars,
                   hs_vars, dispatched, gw_strays, pure_vars>>

\* an invocation registers its two handlers (lines 283-285)
IterSubscribe(i) ==
    /\ ipc[i] = "idle"
    /\ ipc' = [ipc EXCEPT ![i] = "final_wait"]
    /\ event_handlers' = Subscribed(event_handlers, i)
    /\ iterating' = AppendedTo(iterating, i)
    /\ UNCHANGED <<conn_vars, req_vars, gw_vars, disc_vars, proc_vars, send_id, hist_id,
                   run_id, response_future, streamed, iout, orch_vars, hs_vars, dispatched,
                   gw_strays, pure_vars>>

\* an invocation ends and removes its two handlers (lines 335-341)
IterUnsubscribe(i) ==
    /\ ipc[i] = "final_wait"
    /\ Exit(i, event_handlers, TimeoutOutcome(i))
    /\ iterating' = IF iterating.on
                      THEN [iterating EXCEPT !.shared = FALSE,
                                             !.list = Rebound(@, i),
                                             !.removed = @ \cup {i}]
                      ELSE iterating
    /\ UNCHANGED <<conn_vars, req_vars, gw_vars, disc_vars, proc_vars, send_id, hist_id,
                   run_id, response_future, streamed, orch_vars, hs_vars, dispatched,
                   gw_strays, pure_vars>>

NextIter ==
    \/ \E name \in EventNames : IterStart(name)
    \/ IterStep
    \/ IterEnd
    \/ \E i \in Invs : IterSubscribe(i)
    \/ \E i \in Invs : IterUnsubscribe(i)

SpecIter == Init /\ [][NextIter]_vars

\* invocations that only subscribe and unsubscribe, side by side, in every
\* order
InitSubs ==
    /\ ClientInit /\ HandshakeInit(BasicHandshakes) /\ ProcInit
    /\ InvInitFor(Subscribers) /\ OrchInit /\ PureInit

NextSubs ==
    \/ \E i \in Subscribers : IterSubscribe(i)
    \/ \E i \in Subscribers : IterUnsubscribe(i)

SpecSubs == InitSubs /\ [][NextSubs]_vars


\* ------------------------------------- _parse_agent_response, the field mapping
\* lines 428-483 of src/moltbot_scraper.py: the JSON object the extractor
\* found is mapped field by field.  The enum-like fields hold whatever JSON
\* value the agent wrote: a string, a number, null, a list or an object.

MaxIssues == 2        \* entries of a "security_issues" list

Null == Json("null", "")

\* the keys of pagination_map (lines 433-439) and of security_map (446-452)
PaginationNames ==
    {"next_page_link", "infinite_scroll", "load_more_button", "numbered_pages", "none"}
SecurityNames == {"cloudflare", "captcha", "bot_protection", "blocked", "timeout"}

\* a dict lookup hashes its key: a list or an object raises TypeError
Hashable(j) == j.t \notin {"list", "dict"}

\* lines 440-443: pagination_map.get(data.get("pagination_type", "unknown"),
\* PaginationType.UNKNOWN)
PaginationOf(j) ==
    IF ~Hashable(j) THEN "TypeError"
    ELSE IF j.t = "str" /\ j.v \in PaginationNames THEN j.v
    ELSE "unknown"

Issues(raised, issues) == [raised |-> raised, issues |-> issues]

\* lines 453-457: the comprehension over the entries; "s in security_map"
\* hashes every entry
RECURSIVE MapEntries(_)
MapEntries(items) ==
    IF items = <<>> THEN Issues(FALSE, <<>>)
    ELSE IF ~Hashable(Head(items)) THEN Issues(TRUE, <<>>)
    ELSE LET rest == MapEntries(Tail(items))
         IN IF rest.raised THEN rest
            ELSE IF Head(items).t = "str" /\ Head(items).v \in SecurityNames
                   THEN Issues(FALSE, <<Head(items).v>> \o rest.issues)
                   ELSE rest

\* lines 453-457: data.get("security_issues", []) is iterated: a list by its
\* entries, a string by its characters, an object by its keys; null and a
\* number are not iterable
SecurityOf(sec) ==
    IF sec.t = "absent" THEN Issues(FALSE, <<>>)
    ELSE IF sec.t \in {"null", "num"} THEN Issues(TRUE, <<>>)
    ELSE MapEntries(sec.items)

\* lines 485-490: the record returned when the mapping raised TypeError
ParseFailed == Mapped(TRUE, "unknown", <<>>, {}, FALSE)

\* lines 428-483
MapData(data) ==
    LET pagination == PaginationOf(data.pagination_type)
        security == SecurityOf(data.security_issues)
    IN IF pagination = "TypeError" \/ security.raised
         THEN ParseFailed
         ELSE Mapped(FALSE, pagination, security.issues, FilterUrls(data.listing_urls),
                     data.is_ecommerce)

\* the values an agent's answer can hold in the enum-like fields
PaginationInputs ==
    {Json("str", "numbered_pages"), Json("str", "none"), Json("str", "Numbered"),
     Absent, Null, Json("num", "2"), Json("list", ""), Json("dict", "")}

EntryInputs ==
    {Json("str", "captcha"), Json("str", "blocked"), Json("str", "Captcha"),
     Json("str", "none"), Json("num", "3"), Null, Json("dict", ""), Json("list", "")}

SecurityInputs ==
    {[t |-> "absent", items |-> <<>>], [t |-> "null", items |-> <<>>],
     [t |-> "num", items |-> <<>>],
     [t |-> "str", items |-> <<Json("str", "c"), Json("str", "a")>>],
     [t |-> "dict", items |-> <<Json("str", "captcha"), Json("str", "waf")>>]}
      \cup {[t |-> "list", items |-> s] : s \in UNION {[1..n -> EntryInputs] : n \in 0..MaxIssues}}

ParseInputs ==
    [pagination_type : PaginationInputs, security_issues : SecurityInputs,
     listing_urls : {{}, {"listing", "junk"}}, is_ecommerce : BOOLEAN]

ParseCall ==
    /\ ~parse_out.called
    /\ parse_out' = [called |-> TRUE, returned |-> MapData(parse_in)]
    /\ UNCHANGED <<conn_vars, req_vars, gw_vars, disc_vars, proc_vars, inv_vars, orch_vars,
                   hs_vars, event_vars, merge_in, merge_out, filter_vars, extract_vars,
                   parse_in>>

InitParse ==
    /\ ClientInit /\ HandshakeInit(BasicHandshakes) /\ ProcInit /\ InvInit /\ OrchInit
    /\ merge_in = [first |-> NoRecord, retry |-> NoRecord]
    /\ merge_out = NoRecord
    /\ FilterIdle
    /\ ExtractIdle
    /\ parse_in \in ParseInputs
    /\ parse_out = [called |-> FALSE, returned |-> Mapped(FALSE, "unknown", <<>>, {}, FALSE)]

NextParse == ParseCall

SpecParse == InitParse /\ [][NextParse]_vars

\* ================================================================= claims
\* C1: every future that the receive loop has resolved or rejected holds the
\* payload (or error) of the frame that carried that request's own
\* identifier, and the caller gets that value, whatever the order in which
\* the replies to concurrently outstanding requests arrive.
C1_RoutedByIdentifier ==
    /\ \A n \in Ids : fut[n].st \in {"result", "exception"} => fut[n].val = AnswerTo(n)
    /\ \A p \in Procs : out[p].kind \in {"result", "Exception"} => out[p].val = AnswerTo(rid[p])

\* two requests outstanding together, the later one answered first
C1_Witness ==
    \E p, q \in Procs :
        /\ rid[p] # 0 /\ rid[p] < rid[q]
        /\ pc[p] = "await" /\ fut[rid[p]].st = "pending"
        /\ fut[rid[q]].st = "result" /\ fut[rid[q]].val = AnswerTo(rid[q])

\* a "res" frame at the head of the inbox for a request that already ended in TimeoutError
LateFrame ==
    /\ inbox # <<>>
    /\ Head(inbox).type = "res"
    /\ \E p \in Procs : out[p].kind = "TimeoutError" /\ Head(inbox).id = StrKey(rid[p])

\* C2: a request that ended in TimeoutError has no entry in the pending
\* table; identifiers are never shared by two requests; no other request
\* ever gets the answer meant for a timed-out one; and the receive loop
\* reading a late frame for a timed-out request changes nothing but the inbox.
C2_TimeoutDeregisters ==
    /\ [](\A p \in Procs :
            out[p].kind = "TimeoutError" =>
               /\ rid[p] \notin pending_requests
               /\ \A q \in Procs \ {p} :
                     /\ rid[q] # rid[p]
                     /\ out[q].val # AnswerTo(rid[p])
                     /\ rid[q] # 0 => fut[rid[q]].val # AnswerTo(rid[p]))
    /\ [][(LateFrame /\ receive_task = "running" /\ inbox' = Tail(inbox)) =>
             UNCHANGED <<connected, ws, request_id, pending_requests, receive_task, fut,
                         pc, rid, out>>]_vars

\* a request timed out, the gateway answered it all the same, the receive
\* loop has read that late frame and is still running, and a later request
\* is outstanding
C2_Witness ==
    \E p, q \in Procs :
        /\ out[p].kind = "TimeoutError"
        /\ ws = "open" /\ receive_task = "running" /\ inbox = <<>>
        /\ rid[p] \notin gw_unanswered
        /\ rid[q] > rid[p] /\ pc[q] = "await" /\ fut[rid[q]].st = "pending"

\* C3 (as claimed): the receive loop never calls set_result / set_exception
\* on a future that is already resolved or cancelled.
C3_NeverSetsDoneFuture == receive_task # "InvalidStateError"

\* C4 (as claimed): once disconnect() has been called, every invoke_agent()
\* call that was suspended at that moment, in a request() it made or waiting
\* for the completion event, ends, when it ends, with a failure outcome: an
\* exception, or a returned record that carries an error or the timeout
\* status.
C4_OutstandingCallsFail ==
    \A i \in disc_snapshot.invs : ipc[i] = "done" => iout[i].kind # "content"

\* C5 (as claimed): disconnect() never raises.
C5_DisconnectNeverRaises == disc_raised = "none"

Invoking == {t \in Targets : tpc[t] \in {"first", "retry"}}

\* C6: while analyze_sites / scrape_venues runs with concurrency limit K over
\* M > K targets, the targets that hold an outstanding agent invocation
\* (first attempt or retry) are never more than K.
C6_AtMostKInvocations == Cardinality(Invoking) <= Concurrency

C6_Witness ==
    /\ batch = "running"
    /\ Cardinality(Invoking) = Concurrency
    /\ \E t \in Invoking : tpc[t] = "retry"
    /\ \E t \in Targets : tpc[t] = "waiting"

\* C7: when analyze_sites / scrape_venues returns, it returns exactly one
\* result per target and the i-th result is the i-th target's, whatever the
\* order in which the targets' tasks ended.
C7_ResultsInInputOrder ==
    batch = "returned" =>
        /\ Len(batch_out) = NTargets
        /\ \A k \in Targets : batch_out[k].url = k /\ batch_out[k] = result[k]

C7_Witness ==
    /\ batch = "returned"
    /\ \E k \in Targets : finished[k] # k /\ result[k] # result[finished[k]]

\* C8 (as claimed): in a concurrent batch no target's task raises and the
\* batch call does not raise, and a target whose first attempt ended in an
\* exception yields a result whose error field is non-empty.
C8_FailureIsolated ==
    /\ batch # "raised"
    /\ \A t \in Targets :
          /\ tpc[t] # "raised"
          /\ tpc[t] = "done" /\ first[t] = NoRecord => result[t].error_message \notin {"None", ""}

\* a weak result: no listing URLs and no product URLs, and either a blocking
\* indicator other than NONE or a non-empty error message
Weak(a) ==
    /\ a.listing_urls = {}
    /\ a.product_urls = {}
    /\ \/ \E s \in a.security_issues : s # "none"
       \/ a.error_message \notin {"None", ""}

\* C9: analyze_site makes a second agent invocation if and only if the first
\* attempt produced a parsed result and that result is weak.
C9_RetryIffWeak ==
    mode = "sites" =>
        \A t \in Targets :
            tpc[t] \in {"retry", "done"} =>
                (calls[t] = 2 <=> (first[t] # NoRecord /\ Weak(first[t])))

C9_Witness ==
    /\ mode = "sites"
    /\ tpc[1] = "retry"
    /\ calls[1] = 2
    /\ first[1].security_issues = {"blocked"}
    /\ first[1].error_message = "None"

\* C10: no target is given more than two agent invocations, also when the
\* retry's result is weak or the retry fails.
C10_AtMostTwoInvocations == \A t \in Targets : calls[t] <= 2

C10_Witness ==
    \E t \in Targets :
        /\ tpc[t] = "done"
        /\ calls[t] = 2
        /\ result[t].listing_urls = {} /\ result[t].product_urls = {}
        /\ result[t].events < MinEventsRetry
        /\ result[t].error_message \notin {"None", ""}

\* the extracted entries of an analysis: listing URLs plus product URLs
Entries(a) == Cardinality(a.listing_urls) + Cardinality(a.product_urls)

\* C11: when the retry has strictly more entries than the first attempt,
\* the merged result holds the retry's entries (so reports the retry's entry
\* count) and its error message is None.
C11_RetryWinsClearsError ==
    (merge_out # NoRecord /\ Entries(merge_in.retry) > Entries(merge_in.first)) =>
        /\ merge_out.listing_urls = merge_in.retry.listing_urls
        /\ merge_out.product_urls = merge_in.retry.product_urls
        /\ Entries(merge_out) = Entries(merge_in.retry)
        /\ merge_out.error_message = "None"

C11_Witness ==
    /\ merge_out # NoRecord
    /\ Entries(merge_in.retry) > Entries(merge_in.first)
    /\ Entries(merge_in.first) > 0
    /\ merge_in.retry.error_message # "None"
    /\ merge_in.first.error_message # "None"

\* C12: when the retry has no more entries than the first attempt, the
\* merged result holds the first attempt's entries and its indicators are
\* the union of both attempts' indicators without the NONE sentinel.
C12_FirstKeptIssuesUnioned ==
    (merge_out # NoRecord /\ Entries(merge_in.retry) <= Entries(merge_in.first)) =>
        /\ merge_out.listing_urls = merge_in.first.listing_urls
        /\ merge_out.product_urls = merge_in.first.product_urls
        /\ merge_out.security_issues =
             (merge_in.first.security_issues \cup merge_in.retry.security_issues) \ {"none"}

C12_Witness ==
    /\ merge_out # NoRecord
    /\ Entries(merge_in.retry) < Entries(merge_in.first)
    /\ "none" \in merge_in.first.security_issues
    /\ "timeout" \in merge_in.retry.security_issues \ merge_in.first.security_issues
    /\ "blocked" \in merge_in.first.security_issues \ merge_in.retry.security_issues

\* C13: whenever an invoke_agent() call has returned or raised, neither of
\* the two handlers it registered is in the handler table; the table holds
\* handlers of running invocations only, each once.
C13_NoOrphanedHandlers ==
    \A name \in {"chat", "agent"} :
        /\ \A i \in Invs : ipc[i] \in {"idle", "done"} => i \notin Range(event_handlers[name])
        /\ \A k, l \in 1..Len(event_handlers[name]) :
              event_handlers[name][k] = event_handlers[name][l] => k = l

C13_Witness ==
    /\ event_handlers = [chat |-> <<>>, agent |-> <<>>]
    /\ \E i, j \in Invs :
          /\ iout[i].kind = "Exception"
          /\ iout[j].kind = "timeout"

\* C16: an invoke_agent() call whose wait for the completion event timed out
\* has returned, not raised: the streamed fragments in arrival order as
\* content if there are any, otherwise the timeout status; either way with
\* the run identifier of its chat.send reply.
C16_TimeoutReturnsPartial ==
    \A i \in Invs :
        (ipc[i] = "done" /\ response_future[i].st = "cancelled") =>
            /\ iout[i].val.runId = RunOf(send_id[i])
            /\ IF streamed[i] # <<>>
                 THEN iout[i].kind = "content" /\ iout[i].val.parts = streamed[i]
                 ELSE iout[i].kind = "timeout"

C16_Witness ==
    \E i \in Invs :
        /\ ipc[i] = "done"
        /\ response_future[i].st = "cancelled"
        /\ streamed[i] # <<>>
        /\ iout[i].kind = "content"

\* the most recent assistant turn of a transcript
LastAssistant(turns) ==
    LET at == {k \in 1..Len(turns) : turns[k] \in {"assistant_text", "assistant_blank", "assistant_error"}}
    IN IF at = {} THEN "none" ELSE turns[CHOOSE k \in at : \A l \in at : l <= k]

\* C17: an invoke_agent() call that fetched a transcript whose most recent
\* assistant turn signals an upstream error has returned empty content with
\* the LLM error marker, whatever fragments were streamed and whatever the
\* completion event carried inline.
C17_UpstreamErrorSurfaced ==
    \A i \in Invs :
        (/\ ipc[i] = "done"
         /\ hist_id[i] # 0
         /\ fut[hist_id[i]].st = "result"
         /\ LastAssistant(Turns(fut[hist_id[i]].val[1])) = "assistant_error") =>
            /\ iout[i].kind = "llm_error"
            /\ iout[i].val.parts = <<>>
            /\ iout[i].val.src = "none"

C17_Witness ==
    \E i \in Invs :
        /\ ipc[i] = "done"
        /\ hist_id[i] # 0
        /\ fut[hist_id[i]].st = "result"
        /\ fut[hist_id[i]].val[1] = "text_then_error"
        /\ streamed[i] # <<>>
        /\ response_future[i].val # NoVal
        /\ iout[i].kind = "llm_error"

\* the receive loop takes an event frame off the wire
TakesEventFrame ==
    /\ receive_task = "running"
    /\ inbox # <<>>
    /\ Head(inbox).type = "event"
    /\ inbox' = Tail(inbox)

\* C14: for each inbound event frame the receive loop invokes every handler
\* subscribed to the frame's event name exactly once, in subscription order;
\* a handler that raises stops neither the remaining handlers nor the loop.
C14_EveryHandlerOnceInOrder ==
    [][TakesEventFrame =>
         /\ dispatched'.log = event_handlers[Head(inbox).event]
         /\ dispatched'.raised = (HandlerRaises(Head(inbox)) /\ event_handlers[Head(inbox).event] # <<>>)
         /\ receive_task' = "running"]_vars

\* two handlers were subscribed, the first one raised, both were awaited
\* and the loop is still running
C14_Witness ==
    /\ dispatched.raised
    /\ Len(dispatched.log) = 2
    /\ dispatched.log[1] # dispatched.log[2]
    /\ receive_task = "running"

\* C15: the completion wait of an invocation is resolved only by the final
\* "chat" event of the run its own chat.send reply named, so never before
\* that reply was received and never without the gateway ending that run.
C15_ResolvedOnlyByOwnRun ==
    \A i \in Invs :
        response_future[i].st = "result" =>
            /\ run_id[i] # NoVal
            /\ gw_runs[send_id[i]].final

\* connect() got as far as reading the handshake reply
ReplyRead ==
    /\ gw_handshake.transport = "open"
    /\ gw_handshake.first \in {"challenge", "other"}

\* the acknowledgement shapes, as listed: type "res" with a truthy ok, type
\* "connected", type "welcome", or a truthy ok or success field
ListedAck(reply) ==
    /\ reply.json = "object"
    /\ \/ reply.type = "res" /\ TruthyJson(reply.ok)
       \/ reply.type = "connected"
       \/ reply.type = "welcome"
       \/ TruthyJson(reply.ok)
       \/ TruthyJson(reply.success)

\* C18: connect() succeeds, leaving the client connected with its receive
\* loop running, if and only if the handshake reply has one of the listed
\* acknowledgement shapes, whether the first frame was a challenge or not.
C18_SucceedsIffAcknowledged ==
    connect_called =>
        ((conn_out.kind = "True" /\ connected /\ receive_task = "running")
            <=> (ReplyRead /\ ListedAck(gw_handshake.reply)))

\* a "welcome" without ok or success, after a first frame that was no
\* challenge, has connected the client
C18_Witness ==
    /\ connect_called
    /\ gw_handshake.first = "other"
    /\ gw_handshake.reply.type = "welcome"
    /\ ~TruthyJson(gw_handshake.reply.ok)
    /\ ~TruthyJson(gw_handshake.reply.success)
    /\ connected
    /\ receive_task = "running"

\* C19: on a transport failure, an undecodable handshake reply or a reply of
\* none of the acknowledgement shapes, connect() fails with ConnectionError,
\* whose text holds the reason the remote side gave; the client is then not
\* connected and no receive loop was started.
C19_FailsWithConnectionError ==
    (connect_called /\ ~(ReplyRead /\ ListedAck(gw_handshake.reply))) =>
        /\ conn_out.kind = "ConnectionError"
        /\ ~connected
        /\ receive_task = "none"
        /\ (ReplyRead /\ gw_handshake.reply.json = "object" /\ gw_handshake.reply.error # "absent")
              => conn_out.cause[2] = gw_handshake.reply.error

\* a reply {type: "res", ok: false, error: "bad token"} has been rejected
\* with its reason in the error
C19_Witness ==
    /\ connect_called
    /\ ReplyRead
    /\ gw_handshake.reply.type = "res"
    /\ gw_handshake.reply.error = "bad token"
    /\ conn_out.kind = "ConnectionError"
    /\ conn_out.cause[2] = "bad token"
    /\ ~connected

\* the request() calls that have allocated an identifier
Allocated == {p \in Procs : rid[p] # 0}

C21_RetryOnSameSession ==
    \A t \in Targets :
        session[t].retry # NoVal => session[t].retry = session[t].first

\* target t is queued in the semaphore / has been let into its analysis
Waiting(t) == tpc[t] = "waiting"
Admitted(t) == tpc[t] \in {"first", "retry", "done", "raised"}

\* the task of some target ends in this step
SomeTaskEnds ==
    \E t \in Targets : tpc[t] \notin {"done", "raised"} /\ tpc'[t] \in {"done", "raised"}

\* C22: when an analysis ends while targets are queued, one of them gets the
\* slot in that very step, whatever the other analyses in flight do, and can
\* go on at once; if every analysis that is started ends, every queued
\* target is admitted and the batch call ends.
C22_SlotPassedOnAtOnce ==
    /\ [][(SomeTaskEnds /\ \E w \in Targets : Waiting(w))
            => \E w \in Targets : Waiting(w) /\ tpc'[w] = "woken"]_vars
    /\ [](\A w \in Targets : tpc[w] = "woken" => ENABLED TaskResume(w))
    /\ \A t \in Targets : Waiting(t) ~> Admitted(t)
    /\ (batch = "running") ~> (batch \in {"returned", "raised"})

\* a queued target has been handed the slot of an analysis that ended
\* while another analysis is still in flight
C22_Witness ==
    /\ Len(finished) >= 1
    /\ \E w \in Targets : tpc[w] = "woken"
    /\ \E s \in Targets : tpc[s] \in {"first", "retry"}

\* a bare homepage: nothing, or "/" only, after the host
BareHomepage(url) == url.scheme /\ url.path \in {"", "/"}

\* a stylesheet, script or sitemap, whatever query or fragment follows
AssetOrJunk(url) == url.path \in {"/style.css", "/sitemap.xml", "/app.js"}

\* the host without a leading www. label
WithoutWww(host) ==
    IF Len(host) >= 4 /\ SubSeq(host, 1, 4) = <<"w", "w", "w", ".">>
      THEN SubSeq(host, 5, Len(host)) ELSE host

\* the url names a host that is not the site's
OtherSite(url, site_domain) ==
    /\ url.scheme
    /\ WithoutWww(Lower(url.authority)) # WithoutWww(Lower(site_domain))

\* C23: no URL returned by _filter_urls is a bare homepage, an asset or junk
\* resource, or a URL whose host is that of another site than the target's.
C23_NoJunkNoForeignUrl ==
    \A k \in 1..Len(filter_out.urls) :
        /\ ~BareHomepage(filter_out.urls[k])
        /\ ~AssetOrJunk(filter_out.urls[k])
        /\ ~OtherSite(filter_out.urls[k], filter_in.site_domain)

\* the strings of the list, stripped, each at its first occurrence only
RECURSIVE FirstSeen(_, _)
FirstSeen(list, seen) ==
    IF list = <<>> THEN <<>>
    ELSE IF Head(list).type # "url" \/ Strip(Head(list)) \in seen THEN FirstSeen(Tail(list), seen)
    ELSE <<Strip(Head(list))>> \o FirstSeen(Tail(list), seen \cup {Strip(Head(list))})

\* a url the filter lets through
Survives(url) == ~IsJunkUrl(url) /\ ~OtherDomain(url, filter_in.site_domain)

Survivors == SelectSeq(FirstSeen(filter_in.urls, {}), Survives)

\* C24: the output of _filter_urls has at most 10 entries, no duplicates, and
\* is the first (up to 10) surviving URLs of the input in first-seen order.
C24_FirstTenSurvivorsInOrder ==
    filter_out.called =>
        /\ Len(filter_out.urls) <= 10
        /\ \A j, k \in 1..Len(filter_out.urls) : j # k => filter_out.urls[j] # filter_out.urls[k]
        /\ filter_out.urls = SubSeq(Survivors, 1, IF Len(Survivors) < 10 THEN Len(Survivors) ELSE 10)

\* more than ten URLs survive, and ten have been returned
C24_Witness ==
    /\ filter_out.called
    /\ Len(Survivors) > 10
    /\ Len(filter_out.urls) = 10
    /\ Len(filter_in.urls) > Len(Survivors)

\* C25: _extract_json_object recovers the object from a bare object, from a
\* fenced one, from one followed by prose, and from objects, nested or not,
\* whose string values hold braces, also after an escaped quote: a brace
\* inside a quoted string neither opens nor closes anything.
C25_ObjectRecovered ==
    (extract_out.called
       /\ extract_in.shape \in {"bare", "fenced", "trailing prose", "trailing braces"})
        => extract_out.returned = [found |-> TRUE, value |-> extract_in.object]

\* a nested object with a brace after an escaped quote in a string value,
\* followed by prose that holds braces, has been recovered whole
C25_Witness ==
    /\ extract_out.called
    /\ extract_in.shape = "trailing braces"
    /\ \E k \in 1..(Len(extract_in.object) - 2) :
          /\ extract_in.object[k] = B
          /\ extract_in.object[k + 1] = Q
          /\ extract_in.object[k + 2] = "{"
    /\ extract_out.returned.found
    /\ extract_out.returned.value = extract_in.object

\* the places of the text where an object that json.loads accepts stands
ObjectsWithin(text) ==
    {<<i, j>> \in (1..Len(text)) \X (1..Len(text)) :
        i < j /\ text[i] = "{" /\ JsonLoads(SubSeq(text, i, j))}

\* C26: _extract_json_object returns none only if the text holds no
\* parseable object anywhere, be it after or within malformed fragments.
C26_NoneOnlyIfNoObject ==
    (extract_out.called /\ ~extract_out.returned.found)
        => ObjectsWithin(extract_in.text) = {}

\* the attempt _merge_analyses keeps: the retry only with strictly more entries
Kept == IF Entries(merge_in.retry) > Entries(merge_in.first)
        THEN merge_in.retry ELSE merge_in.first

UsableText(history) ==
    \E k \in DOMAIN Turns(history) : Turns(history)[k] = "assistant_text"

\* C28: an invoke_agent() call that got its completion event and the
\* transcript, and met no upstream error, has answered by strict priority:
\* the transcript's text if it has usable text; else the streamed fragments
\* if their concatenation is not empty; else, with no fragment, the inline
\* payload of the completion event; and the "empty response" error when the
\* transcript text, the concatenation and the inline payload are all empty.
C28_AnswerByStrictPriority ==
    \A i \in Invs :
        (/\ ipc[i] = "done"
         /\ hist_id[i] # 0
         /\ fut[hist_id[i]].st = "result"
         /\ iout[i].kind # "llm_error") =>
            IF UsableText(fut[hist_id[i]].val[1])
              THEN iout[i].kind = "content" /\ iout[i].val.src = "transcript"
            ELSE IF Joined(streamed[i]) # <<>>
              THEN /\ iout[i].kind = "content"
                   /\ iout[i].val.src = "streamed"
                   /\ iout[i].val.parts = streamed[i]
            ELSE IF response_future[i].val # NoVal
              THEN streamed[i] = <<>> =>
                       (iout[i].kind = "content" /\ iout[i].val.src = "inline")
            ELSE iout[i].kind = "empty_response"

\* the position of the most recent assistant turn of a transcript (0: none)
LastAssistantTurn(turns) ==
    LET at == {k \in 1..Len(turns) : turns[k] \in {"assistant_text", "assistant_blank", "assistant_error"}}
    IN IF at = {} THEN 0 ELSE CHOOSE k \in at : \A l \in at : l <= k

\* C29: an invoke_agent() call that took its answer from the transcript has
\* returned the text of the most recent assistant turn of the transcript it
\* fetched, never the text of an earlier assistant turn.
C29_MostRecentAssistantTurn ==
    \A i \in Invs :
        (/\ ipc[i] = "done"
         /\ iout[i].kind = "content"
         /\ iout[i].val.src = "transcript") =>
            iout[i].val.parts =
                <<TurnText(LastAssistantTurn(Turns(fut[hist_id[i]].val[1])))>>

\* the texts of the fragments the gateway has streamed for the run of
\* invocation i so far, in the order it sent them
OwnFragments(i) ==
    [k \in 1..gw_runs[send_id[i]].frags |-> FragmentText(send_id[i], k, FALSE)]

\* a fragment of the run of invocation i is still on the wire
OwnFragmentPending(i) ==
    \E k \in 1..Len(inbox) :
        /\ inbox[k].type = "event"
        /\ inbox[k].event = "agent"
        /\ inbox[k].runId = RunOf(send_id[i])

\* C30: the streamed-text buffer of an invocation holds exactly the text
\* fragments of the "agent" events of its own run, in arrival order: it is
\* always a leading part of what the gateway streamed for that run, and it
\* is all of it once no fragment of the run is left on the wire while the
\* invocation waits for its completion event.
C30_BufferIsOwnFragmentsInOrder ==
    \A i \in Invs :
        send_id[i] # 0 =>
            /\ Len(streamed[i]) <= Len(OwnFragments(i))
            /\ streamed[i] = SubSeq(OwnFragments(i), 1, Len(streamed[i]))
            /\ (ipc[i] = "final_wait" /\ ~OwnFragmentPending(i)) =>
                   streamed[i] = OwnFragments(i)

\* how often handler h was awaited in the dispatch
Awaited(h) == Cardinality({k \in 1..Len(iterating.log) : iterating.log[k] = h})

\* the handlers subscribed when the dispatch began
SubscribedAtStart == {iterating.began[k] : k \in 1..Len(iterating.began)}

\* C31: whatever is subscribed or unsubscribed while an event is being
\* dispatched, no handler is awaited twice for the event, and when the
\* dispatch has ended every handler that was subscribed when it began and was
\* not removed meanwhile has been awaited exactly once.
C31_DispatchSafeUnderMutation ==
    /\ \A h \in Invs : Awaited(h) <= 1
    /\ (~iterating.on /\ iterating.name # "none") =>
           \A h \in SubscribedAtStart \ iterating.removed : Awaited(h) = 1

C31_Witness ==
    /\ ~iterating.on
    /\ Len(iterating.began) >= 2
    /\ iterating.removed = {iterating.began[1]}
    /\ iterating.log = iterating.began
    /\ event_handlers[iterating.name] = <<iterating.began[2]>>

\* the receive loop takes the closure of the transport off the wire
TakesClosure ==
    /\ receive_task = "running"
    /\ inbox # <<>>
    /\ Head(inbox).type \in CloseKinds

\* the part of C32 about the table: the step in which the receive loop sees
\* the closure ends the task by a return and changes neither the pending
\* table nor any future
C32_ClosureLeavesTable ==
    [][(TakesClosure /\ inbox' = Tail(inbox)) =>
                       /\ receive_task' = "returned"
                       /\ pending_requests' = pending_requests
                       /\ fut' = fut]_vars

\* C32: once the receive loop has ended on the closure of the transport,
\* without raising, the client no longer reports connected.
C32_ClosureDisconnects ==
    receive_task = "returned" => ~connected

\* the value of an enum-like field matches a known value
KnownPagination(j) == j.t = "str" /\ j.v \in PaginationNames

\* the known labels among the entries of the "security_issues" value
KnownIssues(sec) ==
    {sec.items[k].v : k \in {l \in 1..Len(sec.items) :
                                sec.items[l].t = "str" /\ sec.items[l].v \in SecurityNames}}

\* C33: whatever values the enum-like fields of the agent's answer hold, the
\* record does not fail: a pagination_type that matches no known value gives
\* "unknown", the entries of security_issues that match no known label
\* contribute nothing, and the other fields are mapped into the result.
C33_UnknownEnumNeverFails ==
    parse_out.called =>
        /\ ~parse_out.returned.failed
        /\ ~KnownPagination(parse_in.pagination_type) =>
               parse_out.returned.pagination_type = "unknown"
        /\ {parse_out.returned.security_issues[k] : k \in 1..Len(parse_out.returned.security_issues)}
              = KnownIssues(parse_in.security_issues)
        /\ parse_out.returned.listing_urls = FilterUrls(parse_in.listing_urls)
        /\ parse_out.returned.is_ecommerce = parse_in.is_ecommerce

\* the same, for the answers whose enum-like fields hold only strings, null
\* and numbers, in a list where a list is expected
C33_StringsNeverFail ==
    (/\ parse_out.called
     /\ Hashable(parse_in.pagination_type)
     /\ parse_in.security_issues.t \in {"absent", "list"}
     /\ \A k \in 1..Len(parse_in.security_issues.items) :
            Hashable(parse_in.security_issues.items[k])) => C33_UnknownEnumNeverFails

\* the retry of scrape_venue returned an answer and the answer was parsed
RetryParsed(t, r) == r.kind # "raise" /\ ~ParseResponse(t, r).raised

\* the part of C34 about the result: a retry that was parsed is returned if
\* it has strictly more events than the first attempt, else the first
\* attempt's result is
C34_MoreEventsWins ==
    \A t \in Targets : \A r \in AgentResults("venues") :
        (mode = "venues" /\ RetryReturn(t, r) /\ RetryParsed(t, r)) =>
            result'[t] = IF ParseResponse(t, r).rec.events > first[t].events
                           THEN ParseResponse(t, r).rec
                           ELSE first[t]

OwnFinalDispatched(i) ==
    /\ send_id[i] # 0
    /\ gw_runs[send_id[i]].final
    /\ ~\E k \in 1..Len(inbox) :
           /\ inbox[k].type = "event"
           /\ inbox[k].event = "chat"
           /\ inbox[k].runId = RunOf(send_id[i])

\* C35: once the receive loop has processed the final "chat" event of the
\* run that the gateway acknowledged, an invocation still waiting (for the
\* acknowledgement to reach it, or for the completion) has the completion
\* recorded in its response future, so that it goes on to fetch the
\* transcript.
C35_FinalEventNeverLost ==
    \A i \in Invs :
        (ipc[i] \in {"send_wait", "final_wait"} /\ OwnFinalDispatched(i)) =>
            response_future[i].st = "result"

\* C36: whenever the client reports connected, its receive loop is running.
C36_ConnectedImpliesReceiving ==
    connected => receive_task = "running"

\* the request() calls that have ended, by returning or by raising, after
\* an identifier was allocated to them
Ended == {p \in Allocated : pc[p] = "done"}

\* C37, as stated: once a request() call has returned or raised, its
\* identifier is no longer in the pending table.
C37_EndedCallsLeaveNoEntry ==
    \A p \in Ended : rid[p] \notin pending_requests

\* C37, for the calls that end by an answer, a remote error or a timeout:
\* none of them leaves its identifier behind
C37_AnsweredCallsLeaveNoEntry ==
    \A p \in Ended : out[p].kind # "ConnectionClosed" => rid[p] \notin pending_requests

\* scrape_venue has returned for target t after a second agent invocation
VenueRetried(t) == mode = "venues" /\ tpc[t] = "done" /\ calls[t] = 2

\* C38, as stated: scrape_venue never returns fewer events than its first
\* attempt extracted, whatever becomes of the retry invocation.
C38_FirstAttemptNeverLost ==
    \A t \in Targets : VenueRetried(t) => result[t].events >= first[t].events

\* C38, for a retry invocation that returns (an answer, a timeout outcome or
\* an error outcome) and whose answer is parsed without raising: the events
\* of the first attempt are kept
C38_ReturnedRetryKeepsFirst ==
    [][\A t \in Targets : \A r \in AgentResults("venues") :
        (mode = "venues" /\ RetryReturn(t, r) /\ RetryParsed(t, r)) =>
            result'[t].events >= first[t].events]_vars

\* a request() call is made by p in this step
Calls(p) == pc[p] = "idle" /\ pc'[p] # "idle"

Count(list, h) == Cardinality({n \in 1..Len(list) : list[n] = h})
Before(list, a, b) == \E m, n \in 1..Len(list) : m < n /\ list[m] = a /\ list[n] = b

\* invocation i ends in this step, through its finally clause
Ends(i) == ipc[i] # "done" /\ ipc'[i] = "done"

\* C40: when an invocation ends, its own handlers are gone from the "chat"
\* and the "agent" list, every handler of another invocation is in each
\* list as often as before and in the same relative order; and a handler
\* leaves a list only in the step in which its own invocation ends.
C40_OnlyOwnHandlersRemoved ==
    /\ [][\A i \in DOMAIN ipc : Ends(i) =>
            \A name \in EventNames :
                /\ Count(event_handlers'[name], i) = 0
                /\ \A j \in DOMAIN ipc \ {i} :
                      Count(event_handlers'[name], j) = Count(event_handlers[name], j)
                /\ \A j, k \in DOMAIN ipc \ {i} :
                      Before(event_handlers'[name], j, k) <=> Before(event_handlers[name], j, k)]_vars
    /\ [][\A name \in EventNames : \A j \in DOMAIN ipc :
            Count(event_handlers'[name], j) < Count(event_handlers[name], j) => Ends(j)]_vars

\* invocation 2 has ended; invocation 3, which subscribed before invocation
\* 1, and invocation 1 are still in progress and subscribed in that order
C40_Witness ==
    /\ ipc[2] = "done"
    /\ ipc[3] = "final_wait" /\ ipc[1] = "final_wait"
    /\ event_handlers = [chat |-> <<3, 1>>, agent |-> <<3, 1>>]
=============================================================================
